---- MODULE Spec2Model ----
(***************************************************************************)
(* SalesMate: the conversation state machine (models/conversation), the    *)
(* recommendation engine (services/product), the intent classifier         *)
(* (services/llm) and the conversation service (services/conversation),    *)
(* as state machines.                                                      *)
(*                                                                         *)
(* Text is a sequence of one-character strings, so that str.strip(),       *)
(* str.lower() and the substring test `in` are computed, not assumed.      *)
(* A Python list of objects is a sequence; a list of Message wrappers over *)
(* the schemas held in Conversation.schema.messages is the sequence of the *)
(* positions of those schemas in that list.                                *)
(***************************************************************************)
EXTENDS Integers, Sequences, FiniteSets, TLC

VARIABLES
    status,      \* ConversationSchema.status
    messages,    \* ConversationSchema.messages
    started_at,  \* ConversationSchema.started_at
    ended_at,    \* ConversationSchema.ended_at
    metadata,    \* ConversationSchema.metadata
    clock,       \* the value datetime.now() returns
    last,        \* the last call on the conversation: name, argument of a read, outcome, return value or error text
    catalog,     \* ProductRepository._products_cache
    user,        \* the persona the engine is asked about
    limit,       \* the limit argument
    scored,      \* scored_products of get_recommendations_for_user, after the sort
    rec,         \* the last call on the product service and what it returned
    conversation_id,  \* ConversationSchema.conversation_id, None before the service made one
    active_conversations,  \* ConversationService._active_conversations: the ids registered
    settings,    \* settings.sales: greeting_enabled, product_recommendation_limit; settings.conversation: enable_logging
    svc,         \* the last call on the conversation service and what it did
    logged       \* the calls of ConversationLogger.log_conversation: the conversation it was handed, its status, whether the file was written

vars == <<status, messages, started_at, ended_at, metadata, clock, last,
          catalog, user, limit, scored, rec, conversation_id, active_conversations,
          settings, svc, logged>>

convVars == <<status, messages, started_at, ended_at, metadata, clock, last>>
recVars == <<catalog, user, limit, scored, rec>>
svcVars == <<conversation_id, active_conversations, settings, svc, logged>>

----------------------------------------------------------------------------
(* Bounds *)

MaxClock == 1
MaxMsgs == 3
MaxWindow == 3
MaxCatalog == 3
MaxLimit == 3

----------------------------------------------------------------------------
(* Python values *)

\* Optional[...] = None, for the end timestamp and the duration
None == -1

Max(a, b) == IF a >= b THEN a ELSE b
Min(a, b) == IF a <= b THEN a ELSE b

\* str.isspace() of one character
IsSpace(ch) == ch \in {" ", "\n", "\t"}

\* str.strip(): drop leading and trailing whitespace
RECURSIVE LStrip(_)
LStrip(s) == IF s = <<>> THEN <<>>
             ELSE IF IsSpace(Head(s)) THEN LStrip(Tail(s)) ELSE s

RECURSIVE RStrip(_)
RStrip(s) == IF s = <<>> THEN <<>>
             ELSE IF IsSpace(s[Len(s)]) THEN RStrip(SubSeq(s, 1, Len(s) - 1)) ELSE s

Strip(s) == RStrip(LStrip(s))

\* seq[start:] of Python for any integer start
PySliceFrom(s, start) ==
    LET n == Len(s)
        lo == IF start < 0 THEN Max(n + start, 0) ELSE Min(start, n)
    IN  SubSeq(s, lo + 1, n)

\* seq[:stop] of Python for any integer stop
PySliceTo(s, stop) ==
    LET n == Len(s)
        hi == IF stop < 0 THEN Max(n + stop, 0) ELSE Min(stop, n)
    IN  SubSeq(s, 1, hi)

EmptyDict == <<>>

\* d[key] = value
DictSet(d, key, value) ==
    [k \in DOMAIN d \cup {key} |-> IF k = key THEN value ELSE d[k]]

----------------------------------------------------------------------------
(* models/conversation/schema.py, message.py *)

MessageRole == {"system", "user", "assistant"}
ConversationStatus == {"active", "completed", "abandoned"}

\* the texts a caller passes as message content
Contents == {<<>>, <<" ">>, <<"h", "i">>, <<" ", "o", "k">>}

\* MessageSchema.__post_init__: content that construction accepts
ContentOk(content) == ~(content = <<>>) /\ ~(Strip(content) = <<>>)

\* Message.create_*_message: the schema built.  Its timestamp is left out:
\* no method of Conversation reads it.
NewMessage(role, content) ==
    [role |-> role, content |-> content, metadata |-> EmptyDict]

\* MessageSchema.to_openai_format
ToOpenaiFormat(m) == [role |-> m.role, content |-> m.content]

\* Message.is_system_message
IsSystemMessage(m) == m.role = "system"

----------------------------------------------------------------------------
(* models/conversation/conversation.py: the read-only methods, on the list *)
(* msgs = schema.messages.  The Message wrappers returned are the          *)
(* positions of their schemas in msgs.                                     *)

Positions(msgs) == [i \in 1..Len(msgs) |-> i]

\* is_active that takes every status for active
IsActive_Any(st) == st \in ConversationStatus

\* Conversation.is_active
IsActive(st) == st = "active"

\* get_last_n_messages that slices messages[:n], the first n
GetLastNMessages_FirstN(msgs, n) ==
    IF n <= 0 THEN <<>> ELSE PySliceTo(Positions(msgs), n)

\* Conversation.get_last_n_messages
GetLastNMessages(msgs, n) ==
    IF n <= 0 THEN <<>> ELSE PySliceFrom(Positions(msgs), -n)

\* [msg for msg in wrappers if not msg.is_system_message()]
RECURSIVE DropSystem(_, _)
DropSystem(msgs, wrappers) ==
    IF wrappers = <<>> THEN <<>>
    ELSE IF ~IsSystemMessage(msgs[Head(wrappers)])
         THEN <<Head(wrappers)>> \o DropSystem(msgs, Tail(wrappers))
         ELSE DropSystem(msgs, Tail(wrappers))

\* get_context_window without the is_system_message filter
GetContextWindow_KeepSystem(msgs, window_size) ==
    GetLastNMessages(msgs, window_size)

\* Conversation.get_context_window
GetContextWindow(msgs, window_size) ==
    DropSystem(msgs, GetLastNMessages(msgs, window_size))

\* Conversation.get_messages_for_llm
GetMessagesForLlm(msgs, context_window_size) ==
    LET w == GetContextWindow(msgs, context_window_size)
    IN  [i \in 1..Len(w) |-> ToOpenaiFormat(msgs[w[i]])]

\* Conversation.get_duration_seconds
DurationSeconds(started, ended) ==
    IF ended = None THEN None ELSE ended - started

----------------------------------------------------------------------------
(* The conversation: one action per method *)

Called(op, arg, ok, ret) == [op |-> op, arg |-> arg, ok |-> ok, ret |-> ret]

\* Conversation.create_new at time now
CreateNew(now) ==
    /\ status = "active"
    /\ messages = <<>>
    /\ started_at = now
    /\ ended_at = None
    /\ metadata = EmptyDict
    /\ last = Called("create_new", now, TRUE, None)

\* time passes; datetime.now() never goes back
Tick ==
    /\ clock < MaxClock
    /\ clock' = clock + 1
    /\ last' = Called("tick", clock + 1, TRUE, None)
    /\ UNCHANGED <<status, messages, started_at, ended_at, metadata>>

\* add_message without the is_active guard
AddToHistory_NoGuard(op, m) ==
    /\ Len(messages) < MaxMsgs
    /\ messages' = Append(messages, m)
    /\ last' = Called(op, None, TRUE, None)
    /\ UNCHANGED <<status, started_at, ended_at, metadata, clock>>

\* Conversation.add_message: the guard and the append
AddToHistory(op, m) ==
    IF ~IsActive(status)
    THEN /\ last' = Called(op, None, FALSE, "Cannot add message to inactive conversation")
         /\ UNCHANGED <<status, messages, started_at, ended_at, metadata, clock>>
    ELSE /\ Len(messages) < MaxMsgs
         /\ messages' = Append(messages, m)
         /\ last' = Called(op, None, TRUE, None)
         /\ UNCHANGED <<status, started_at, ended_at, metadata, clock>>

\* Conversation.add_message(message): the caller built the message at some
\* earlier time, so its content passed MessageSchema.__post_init__
AddMessage ==
    \E role \in MessageRole, content \in Contents :
       /\ ContentOk(content)
       /\ AddToHistory("add_message", NewMessage(role, content))

\* create and add without the content check of MessageSchema.__post_init__
CreateAndAdd_AcceptBlank(op, role, content) ==
    AddToHistory(op, NewMessage(role, content))

\* add_user_message / add_assistant_message / add_system_message:
\* Message.create_*_message(content) first, then add_message
CreateAndAdd(op, role, content) ==
    IF ~ContentOk(content)
    THEN /\ last' = Called(op, None, FALSE, "Message content cannot be empty")
         /\ UNCHANGED <<status, messages, started_at, ended_at, metadata, clock>>
    ELSE AddToHistory(op, NewMessage(role, content))

AddUserMessage ==
    \E content \in Contents : CreateAndAdd("add_user_message", "user", content)

AddAssistantMessage ==
    \E content \in Contents : CreateAndAdd("add_assistant_message", "assistant", content)

AddSystemMessage ==
    \E content \in Contents : CreateAndAdd("add_system_message", "system", content)

\* complete/abandon without the is_active guard
Terminate_NoGuard(op, newStatus) ==
    /\ status' = newStatus
    /\ ended_at' = clock
    /\ last' = Called(op, None, TRUE, None)
    /\ UNCHANGED <<messages, started_at, metadata, clock>>

\* complete/abandon that forgets to stamp ended_at
Terminate_NoStamp(op, newStatus) ==
    IF ~IsActive(status)
    THEN /\ last' = Called(op, None, FALSE, "Conversation is already inactive")
         /\ UNCHANGED <<status, messages, started_at, ended_at, metadata, clock>>
    ELSE /\ status' = newStatus
         /\ last' = Called(op, None, TRUE, None)
         /\ UNCHANGED <<messages, started_at, ended_at, metadata, clock>>

\* complete_conversation / abandon_conversation: the guard, the status and
\* the end timestamp
Terminate(op, newStatus) ==
    IF ~IsActive(status)
    THEN /\ last' = Called(op, None, FALSE, "Conversation is already inactive")
         /\ UNCHANGED <<status, messages, started_at, ended_at, metadata, clock>>
    ELSE /\ status' = newStatus
         /\ ended_at' = clock
         /\ last' = Called(op, None, TRUE, None)
         /\ UNCHANGED <<messages, started_at, metadata, clock>>

CompleteConversation == Terminate("complete_conversation", "completed")

AbandonConversation == Terminate("abandon_conversation", "abandoned")

\* Conversation.get_duration_seconds
GetDurationSeconds ==
    /\ last' = Called("get_duration_seconds", None, TRUE, DurationSeconds(started_at, ended_at))
    /\ UNCHANGED <<status, messages, started_at, ended_at, metadata, clock>>

WindowSizes == -1..MaxWindow

\* Conversation.get_context_window(window_size)
CallGetContextWindow ==
    \E n \in WindowSizes :
       /\ last' = Called("get_context_window", n, TRUE, GetContextWindow(messages, n))
       /\ UNCHANGED <<status, messages, started_at, ended_at, metadata, clock>>

\* Conversation.get_messages_for_llm(context_window_size)
CallGetMessagesForLlm ==
    \E n \in WindowSizes :
       /\ last' = Called("get_messages_for_llm", n, TRUE, GetMessagesForLlm(messages, n))
       /\ UNCHANGED <<status, messages, started_at, ended_at, metadata, clock>>

MetaKeys == {"log_path"}
MetaValues == {"f1"}

\* Conversation.set_metadata_value(key, value)
SetMetadataValue ==
    \E key \in MetaKeys, value \in MetaValues :
       /\ metadata' = DictSet(metadata, key, value)
       /\ last' = Called("set_metadata_value", <<key, value>>, TRUE, None)
       /\ UNCHANGED <<status, messages, started_at, ended_at, clock>>

\* the product service is not part of this specification
RecIdle ==
    /\ catalog = <<>>
    /\ user = None
    /\ limit = 0
    /\ scored = <<>>
    /\ rec = [op |-> "none", ret |-> <<>>]

\* the conversation service is not part of this specification
SvcIdle ==
    /\ conversation_id = None
    /\ active_conversations = {}
    /\ settings = [greeting_enabled |-> FALSE, product_recommendation_limit |-> 1,
                   enable_logging |-> FALSE]
    /\ svc = [op |-> "none"]
    /\ logged = <<>>

Init ==
    /\ clock = 0
    /\ CreateNew(clock)
    /\ RecIdle
    /\ SvcIdle

Next ==
    \/ (Tick /\ UNCHANGED <<recVars, svcVars>>)
    \/ (AddMessage /\ UNCHANGED <<recVars, svcVars>>)
    \/ (AddUserMessage /\ UNCHANGED <<recVars, svcVars>>)
    \/ (AddAssistantMessage /\ UNCHANGED <<recVars, svcVars>>)
    \/ (AddSystemMessage /\ UNCHANGED <<recVars, svcVars>>)
    \/ (CompleteConversation /\ UNCHANGED <<recVars, svcVars>>)
    \/ (AbandonConversation /\ UNCHANGED <<recVars, svcVars>>)
    \/ (GetDurationSeconds /\ UNCHANGED <<recVars, svcVars>>)
    \/ (SetMetadataValue /\ UNCHANGED <<recVars, svcVars>>)

Spec == Init /\ [][Next]_vars

\* The history and the calls that read it
NextWindow ==
    \/ (AddMessage /\ UNCHANGED <<recVars, svcVars>>)
    \/ (AddUserMessage /\ UNCHANGED <<recVars, svcVars>>)
    \/ (AddAssistantMessage /\ UNCHANGED <<recVars, svcVars>>)
    \/ (AddSystemMessage /\ UNCHANGED <<recVars, svcVars>>)
    \/ (CallGetContextWindow /\ UNCHANGED <<recVars, svcVars>>)
    \/ (CallGetMessagesForLlm /\ UNCHANGED <<recVars, svcVars>>)

SpecWindow == Init /\ [][NextWindow]_vars

TypeOK ==
    /\ status \in ConversationStatus
    /\ clock \in 0..MaxClock
    /\ Len(messages) <= MaxMsgs

----------------------------------------------------------------------------
(* Text: str.lower() and the substring test `needle in text` *)

LowerOf ==
    ("A" :> "a") @@ ("B" :> "b") @@ ("C" :> "c") @@ ("D" :> "d") @@ ("E" :> "e") @@
    ("F" :> "f") @@ ("G" :> "g") @@ ("H" :> "h") @@ ("I" :> "i") @@ ("J" :> "j") @@
    ("K" :> "k") @@ ("L" :> "l") @@ ("M" :> "m") @@ ("N" :> "n") @@ ("O" :> "o") @@
    ("P" :> "p") @@ ("Q" :> "q") @@ ("R" :> "r") @@ ("S" :> "s") @@ ("T" :> "t") @@
    ("U" :> "u") @@ ("V" :> "v") @@ ("W" :> "w") @@ ("X" :> "x") @@ ("Y" :> "y") @@
    ("Z" :> "z")

\* str.lower()
Lower(s) == [i \in 1..Len(s) |-> IF s[i] \in DOMAIN LowerOf THEN LowerOf[s[i]] ELSE s[i]]

\* text.startswith(needle)
StartsWith(text, needle) ==
    /\ Len(needle) <= Len(text)
    /\ SubSeq(text, 1, Len(needle)) = needle

\* needle in text
RECURSIVE Contains(_, _)
Contains(text, needle) ==
    IF StartsWith(text, needle) THEN TRUE
    ELSE IF text = <<>> THEN FALSE
    ELSE Contains(Tail(text), needle)

----------------------------------------------------------------------------
(* models/product: the fields the recommendation engine reads *)

StockStatus == {"in_stock", "out_of_stock", "low_stock", "discontinued", "pre_order"}
PriceTier == {"budget", "mid_range", "premium", "luxury"}

\* a stock record that keeps the status it was given
NormalisedStatus_KeepSupplied(stock_status, quantity, reorder_level) == stock_status

\* ProductStockSchema.__post_init__: the status a stock record ends with
NormalisedStatus(stock_status, quantity, reorder_level) ==
    IF quantity = 0 /\ stock_status # "out_of_stock" THEN "out_of_stock"
    ELSE IF 0 < quantity /\ quantity <= reorder_level /\ stock_status = "in_stock" THEN "low_stock"
    ELSE stock_status

\* ProductStockSchema(status, quantity, reorder_level): the record constructed,
\* or the ValueError its __post_init__ raises
ProductStockSchema(stock_status, quantity, reorder_level) ==
    IF quantity < 0 THEN [ok |-> FALSE, error |-> "Stock quantity cannot be negative"]
    ELSE IF reorder_level < 0 THEN [ok |-> FALSE, error |-> "Reorder level cannot be negative"]
    ELSE [ok |-> TRUE,
          status |-> NormalisedStatus(stock_status, quantity, reorder_level),
          quantity |-> quantity,
          reorder_level |-> reorder_level]

\* ProductSchema.from_dict: the product built from one item of the products file.
\* price is in currency units, rating in tenths (45 is 4.5).
FromDict(data) ==
    [product_id |-> data.product_id,
     name |-> data.name,
     category |-> data.category,
     subcategory |-> data.subcategory,
     brand |-> data.brand,
     description |-> data.description,
     features |-> data.features,
     price |-> data.price,
     discount_percentage |-> data.discount_percentage,
     is_featured |-> data.is_featured,
     rating |-> data.rating,
     stock_status |-> NormalisedStatus(data.stock_status, data.stock_quantity, data.reorder_level),
     stock_quantity |-> data.stock_quantity,
     reorder_level |-> data.reorder_level,
     price_tier |-> data.price_tier,
     tags |-> data.tags]

\* the checks of ProductPriceSchema, ProductStockSchema, ProductMetadataSchema
\* and ProductSchema.__post_init__ on those fields
DataOk(data) ==
    /\ data.price > 0
    /\ data.discount_percentage >= 0 /\ data.discount_percentage <= 100
    /\ data.stock_quantity >= 0 /\ data.reorder_level >= 0
    /\ data.rating >= 0 /\ data.rating <= 50
    /\ ContentOk(data.product_id) /\ ContentOk(data.name) /\ ContentOk(data.category)
    /\ ContentOk(data.brand)
    /\ data.stock_status \in StockStatus /\ data.price_tier \in PriceTier
    /\ Len(data.description) >= 10
    /\ Len(data.features) > 0

\* ProductStockSchema.is_available
IsAvailable(product) == product.stock_status \in {"in_stock", "low_stock"}

\* ProductPriceSchema.is_on_sale
IsOnSale(product) == product.discount_percentage > 0

\* Product.matches_category
MatchesCategory(product, category) == Lower(product.category) = Lower(category)

\* Product.matches_subcategory
MatchesSubcategory(product, subcategory) == Lower(product.subcategory) = Lower(subcategory)

\* Product.matches_brand
MatchesBrand(product, brand) == Lower(product.brand) = Lower(brand)

\* Product.matches_price_tier
MatchesPriceTier(product, tier) == product.price_tier = tier

\* for feature in self.features: if keyword_lower in feature.lower(): return True
RECURSIVE AnyFeatureContains(_, _)
AnyFeatureContains(features, keyword_lower) ==
    IF features = <<>> THEN FALSE
    ELSE IF Contains(Lower(Head(features)), keyword_lower) THEN TRUE
    ELSE AnyFeatureContains(Tail(features), keyword_lower)

\* Product.has_feature_keyword
HasFeatureKeyword(product, keyword) ==
    LET keyword_lower == Lower(keyword)
    IN  IF AnyFeatureContains(product.features, keyword_lower) THEN TRUE
        ELSE IF Contains(Lower(product.name), keyword_lower) THEN TRUE
        ELSE IF Contains(Lower(product.description), keyword_lower) THEN TRUE
        ELSE FALSE

\* Product.is_within_budget
IsWithinBudget(product, min_price, max_price) ==
    min_price <= product.price /\ product.price <= max_price

----------------------------------------------------------------------------
(* models/user: the fields the recommendation engine reads *)

\* User.budget_min, User.budget_max
BudgetMin(u) == u.budget_range.min
BudgetMax(u) == u.budget_range.max

\* User.budget_sweet_spot: budget_range.get('sweet_spot', budget_range['max'])
BudgetSweetSpot(u) ==
    IF "sweet_spot" \in DOMAIN u.budget_range THEN u.budget_range.sweet_spot
    ELSE u.budget_range.max

\* category.lower() in [c.lower() for c in self.categories_of_interest]
RECURSIVE InLowered(_, _)
InLowered(lowered, texts) ==
    IF texts = <<>> THEN FALSE
    ELSE IF Lower(Head(texts)) = lowered THEN TRUE
    ELSE InLowered(lowered, Tail(texts))

\* User.is_interested_in_category
IsInterestedInCategory(u, category) == InLowered(Lower(category), u.categories_of_interest)

\* ProductPreferencesSchema.__post_init__
PersonaOk(u) ==
    /\ Len(u.categories_of_interest) > 0
    /\ u.budget_range.min >= 0 /\ u.budget_range.max >= 0
    /\ u.budget_range.min <= u.budget_range.max

----------------------------------------------------------------------------
(* services/product/service.py, repository.py *)

\* for feature in user.key_features_valued: if has_feature_keyword: score += 3
RECURSIVE FeatureScore(_, _)
FeatureScore(product, valued) ==
    IF valued = <<>> THEN 0
    ELSE (IF HasFeatureKeyword(product, Head(valued)) THEN 3 ELSE 0)
         + FeatureScore(product, Tail(valued))

\* the score without the sweet-spot bonus
CalculateProductScoreForUser_NoSweetSpot(product, u) ==
    IF ~IsWithinBudget(product, BudgetMin(u), BudgetMax(u)) THEN 0
    ELSE 10
         + (IF IsInterestedInCategory(u, product.category) THEN 15 ELSE 0)
         + FeatureScore(product, u.key_features_valued)
         + (IF product.is_featured THEN 2 ELSE 0)
         + (IF IsOnSale(product) THEN 3 ELSE 0)
         + (IF product.rating >= 45 THEN 4 ELSE IF product.rating >= 40 THEN 2 ELSE 0)

\* the score with the rating bonus tested with > instead of >=
CalculateProductScoreForUser_StrictRating(product, u) ==
    IF ~IsWithinBudget(product, BudgetMin(u), BudgetMax(u)) THEN 0
    ELSE 10
         + (IF product.price <= BudgetSweetSpot(u) THEN 5 ELSE 0)
         + (IF IsInterestedInCategory(u, product.category) THEN 15 ELSE 0)
         + FeatureScore(product, u.key_features_valued)
         + (IF product.is_featured THEN 2 ELSE 0)
         + (IF IsOnSale(product) THEN 3 ELSE 0)
         + (IF product.rating > 45 THEN 4 ELSE IF product.rating > 40 THEN 2 ELSE 0)

\* ProductService._calculate_product_score_for_user
CalculateProductScoreForUser(product, u) ==
    IF ~IsWithinBudget(product, BudgetMin(u), BudgetMax(u)) THEN 0
    ELSE 10
         + (IF product.price <= BudgetSweetSpot(u) THEN 5 ELSE 0)
         + (IF IsInterestedInCategory(u, product.category) THEN 15 ELSE 0)
         + FeatureScore(product, u.key_features_valued)
         + (IF product.is_featured THEN 2 ELSE 0)
         + (IF IsOnSale(product) THEN 3 ELSE 0)
         + (IF product.rating >= 45 THEN 4 ELSE IF product.rating >= 40 THEN 2 ELSE 0)

\* [p for p in products if p.is_available], as positions in the catalog
RECURSIVE AvailableFrom(_, _)
AvailableFrom(products, i) ==
    IF i > Len(products) THEN <<>>
    ELSE IF IsAvailable(products[i]) THEN <<i>> \o AvailableFrom(products, i + 1)
    ELSE AvailableFrom(products, i + 1)

\* ProductRepository.get_available_products
GetAvailableProducts(products) == AvailableFrom(products, 1)

\* scored_products.append((product, score)) for each product
ScoreAll(products, positions, u) ==
    [k \in 1..Len(positions) |->
        [product |-> positions[k], score |-> CalculateProductScoreForUser(products[positions[k]], u)]]

\* one insertion of a sort that puts an entry before the entries of equal score
InsertDescending_Unstable(sorted, entry) ==
    LET before == {k \in 1..Len(sorted) : sorted[k].score > entry.score}
        n == Cardinality(before)
    IN  SubSeq(sorted, 1, n) \o <<entry>> \o SubSeq(sorted, n + 1, Len(sorted))

\* list.sort(key=score, reverse=True) is stable: an entry goes after every
\* entry of greater or equal score that preceded it
InsertDescending(sorted, entry) ==
    LET before == {k \in 1..Len(sorted) : sorted[k].score >= entry.score}
        n == Cardinality(before)
    IN  SubSeq(sorted, 1, n) \o <<entry>> \o SubSeq(sorted, n + 1, Len(sorted))

\* the scored products left in catalog order
SortDescending_NoSort(entries) == entries

\* scored_products.sort(key=lambda x: x[1], reverse=True)
RECURSIVE SortDescending(_)
SortDescending(entries) ==
    IF entries = <<>> THEN <<>>
    ELSE InsertDescending(SortDescending(SubSeq(entries, 1, Len(entries) - 1)),
                          entries[Len(entries)])

\* scored_products of get_recommendations_for_user after the sort
ScoredProducts(products, u) ==
    SortDescending(ScoreAll(products, GetAvailableProducts(products), u))

\* ProductService.get_recommendations_for_user: the products returned, as
\* positions in the catalog
GetRecommendationsForUser(products, u, lim) ==
    LET top == PySliceTo(ScoredProducts(products, u), lim)
    IN  [k \in 1..Len(top) |-> top[k].product]

\* the price band bonus with the band boundaries included
PriceBandScore_Inclusive(price_diff) ==
    IF price_diff <= 50 THEN 8
    ELSE IF price_diff <= 100 THEN 5
    ELSE IF price_diff <= 200 THEN 2
    ELSE 0

\* if price_diff < 50: +8 elif price_diff < 100: +5 elif price_diff < 200: +2
PriceBandScore(price_diff) ==
    IF price_diff < 50 THEN 8
    ELSE IF price_diff < 100 THEN 5
    ELSE IF price_diff < 200 THEN 2
    ELSE 0

\* ProductService._calculate_similarity_score
CalculateSimilarityScore(product1, product2) ==
    (IF MatchesSubcategory(product1, product2.subcategory) THEN 10 ELSE 0)
    + (IF MatchesBrand(product1, product2.brand) THEN 5 ELSE 0)
    + PriceBandScore(IF product1.price < product2.price
                     THEN product2.price - product1.price
                     ELSE product1.price - product2.price)
    + (IF MatchesPriceTier(product1, product2.price_tier) THEN 3 ELSE 0)
    + Cardinality({product1.tags[i] : i \in 1..Len(product1.tags)}
                  \cap {product2.tags[i] : i \in 1..Len(product2.tags)}) * 2

\* the loop of get_similar_products without the test that skips the product itself
RECURSIVE SimilarFrom_KeepSelf(_, _, _)
SimilarFrom_KeepSelf(products, positions, product) ==
    IF positions = <<>> THEN <<>>
    ELSE LET i == Head(positions)
             rest == SimilarFrom_KeepSelf(products, Tail(positions), product)
         IN  IF MatchesCategory(products[i], product.category)
             THEN <<[product |-> i, score |-> CalculateSimilarityScore(product, products[i])]>> \o rest
             ELSE rest

\* the loop of get_similar_products over the available products: skip the
\* product itself, keep the products of its category with their scores
RECURSIVE SimilarFrom(_, _, _)
SimilarFrom(products, positions, product) ==
    IF positions = <<>> THEN <<>>
    ELSE LET i == Head(positions)
             rest == SimilarFrom(products, Tail(positions), product)
         IN  IF products[i].product_id = product.product_id THEN rest
             ELSE IF MatchesCategory(products[i], product.category)
             THEN <<[product |-> i, score |-> CalculateSimilarityScore(product, products[i])]>> \o rest
             ELSE rest

\* similar of get_similar_products after the sort
SimilarProducts(products, product) ==
    SortDescending(SimilarFrom(products, GetAvailableProducts(products), product))

\* ProductService.get_similar_products: the products returned, as positions
\* in the catalog
GetSimilarProducts(products, product, lim) ==
    LET top == PySliceTo(SimilarProducts(products, product), lim)
    IN  [k \in 1..Len(top) |-> top[k].product]

\* ProductRepository.get_products_by_category, as positions in the catalog
RECURSIVE CategoryFrom(_, _, _)
CategoryFrom(products, i, category) ==
    IF i > Len(products) THEN <<>>
    ELSE IF MatchesCategory(products[i], category)
         THEN <<i>> \o CategoryFrom(products, i + 1, category)
         ELSE CategoryFrom(products, i + 1, category)

\* for category in categories: products.extend(get_products_by_category(category))
RECURSIVE ExtendByCategories(_, _)
ExtendByCategories(products, categories) ==
    IF categories = <<>> THEN <<>>
    ELSE CategoryFrom(products, 1, Head(categories))
         \o ExtendByCategories(products, Tail(categories))

\* [p for p in found if p.is_available], found a list of catalog positions
RECURSIVE KeepAvailable(_, _)
KeepAvailable(products, found) ==
    IF found = <<>> THEN <<>>
    ELSE IF IsAvailable(products[Head(found)])
         THEN <<Head(found)>> \o KeepAvailable(products, Tail(found))
         ELSE KeepAvailable(products, Tail(found))

\* `if limit:` of Python: None and 0 are false
Truthy(number) == number # None /\ number # 0

\* ProductService.get_products_by_categories: the products returned, as
\* positions in the catalog.  lim is None or a number >= 0.
GetProductsByCategories(products, categories, lim) ==
    LET found == KeepAvailable(products, ExtendByCategories(products, categories))
    IN  IF Truthy(lim) THEN PySliceTo(found, lim) ELSE found

----------------------------------------------------------------------------
(* services/llm/service.py: the API call, the retry wrapper and the parsing *)
(* of the classifier's answer                                               *)

\* the position of the first sep in s, 0 when there is none
FirstIndex(s, sep) ==
    IF \E i \in 1..Len(s) : s[i] = sep
    THEN CHOOSE i \in 1..Len(s) : s[i] = sep /\ \A j \in 1..(i - 1) : s[j] # sep
    ELSE 0

\* str.split(sep) for a one-character sep
RECURSIVE Split(_, _)
Split(s, sep) ==
    LET k == FirstIndex(s, sep)
    IN  IF k = 0 THEN <<s>>
        ELSE <<SubSeq(s, 1, k - 1)>> \o Split(SubSeq(s, k + 1, Len(s)), sep)

\* str.replace(ch, '') for a one-character ch
RECURSIVE Remove(_, _)
Remove(s, ch) ==
    IF s = <<>> THEN <<>>
    ELSE IF Head(s) = ch THEN Remove(Tail(s), ch)
    ELSE <<Head(s)>> \o Remove(Tail(s), ch)

\* the number a text of decimal digits stands for
RECURSIVE DigitsValue(_)
DigitsValue(s) ==
    IF s = <<>> THEN 0
    ELSE 10 * DigitsValue(SubSeq(s, 1, Len(s) - 1))
         + (CHOOSE d \in 0..9 : <<"0", "1", "2", "3", "4", "5", "6", "7", "8", "9">>[d + 1] = s[Len(s)])

\* float(text) on whole numbers: an optional sign and decimal digits give the
\* number, any other text of the texts modelled raises ValueError
ParseFloat(text) ==
    LET IsDigits(s) ==
            s # <<>> /\ \A i \in 1..Len(s) : s[i] \in {"0", "1", "2", "3", "4", "5", "6", "7", "8", "9"}
    IN
    IF IsDigits(text) THEN [ok |-> TRUE, value |-> DigitsValue(text)]
    ELSE IF text # <<>> /\ Head(text) = "+" /\ IsDigits(Tail(text))
         THEN [ok |-> TRUE, value |-> DigitsValue(Tail(text))]
    ELSE IF text # <<>> /\ Head(text) = "-" /\ IsDigits(Tail(text))
         THEN [ok |-> TRUE, value |-> 0 - DigitsValue(Tail(text))]
    ELSE [ok |-> FALSE]

\* the texts the classifier answer is made of and the text of a reply
Keyword ==
    [ Intent |-> <<"i", "n", "t", "e", "n", "t">>,
      Categories |-> <<"c", "a", "t", "e", "g", "o", "r", "i", "e", "s">>,
      BudgetKey |-> <<"b", "u", "d", "g", "e", "t">>,
      Requirements |-> <<"r", "e", "q", "u", "i", "r", "e", "m", "e", "n", "t", "s">>,
      None |-> <<"n", "o", "n", "e">>,
      NotMentioned |-> <<"n", "o", "t", " ", "m", "e", "n", "t", "i", "o", "n", "e", "d">>,
      Unknown |-> <<"u", "n", "k", "n", "o", "w", "n">>,
      Browsing |-> <<"b", "r", "o", "w", "s", "i", "n", "g">>,
      AskingQuestion |-> <<"a", "s", "k", "i", "n", "g", "_", "q", "u", "e", "s", "t", "i", "o", "n">>,
      RequestingRecommendation |-> <<"r", "e", "q", "u", "e", "s", "t", "i", "n", "g", "_", "r", "e", "c", "o", "m", "m", "e", "n", "d", "a", "t", "i", "o", "n">>,
      ComparingProducts |-> <<"c", "o", "m", "p", "a", "r", "i", "n", "g", "_", "p", "r", "o", "d", "u", "c", "t", "s">>,
      ReadyToBuy |-> <<"r", "e", "a", "d", "y", "_", "t", "o", "_", "b", "u", "y">>,
      Objection |-> <<"o", "b", "j", "e", "c", "t", "i", "o", "n">>,
      Sure |-> <<"s", "u", "r", "e">> ]

\* [item.strip() for item in value.split(',')]
StripAll(items) == [i \in 1..Len(items) |-> Strip(items[i])]

\* the result _parse_intent_analysis starts from, and the one
\* analyze_user_intent returns when the call raised
UnknownAnalysis ==
    [intent |-> Keyword.Unknown, categories |-> <<>>, budget |-> None, requirements |-> <<>>]

\* the body of the loop of _parse_intent_analysis for one line
ParseLine(result, line) ==
    LET k == FirstIndex(line, ":")
        key == Lower(Strip(SubSeq(line, 1, k - 1)))
        value == Strip(SubSeq(line, k + 1, Len(line)))
        budget == ParseFloat(Strip(Remove(Remove(value, "$"), ",")))
    IN  IF k = 0 THEN result
        ELSE IF key = Keyword.Intent THEN [result EXCEPT !.intent = Lower(value)]
        ELSE IF key = Keyword.Categories /\ Lower(value) # Keyword.None
             THEN [result EXCEPT !.categories = StripAll(Split(value, ","))]
        ELSE IF key = Keyword.BudgetKey /\ Lower(value) # Keyword.NotMentioned
             THEN IF budget.ok THEN [result EXCEPT !.budget = budget.value] ELSE result
        ELSE IF key = Keyword.Requirements /\ Lower(value) # Keyword.None
             THEN [result EXCEPT !.requirements = StripAll(Split(value, ","))]
        ELSE result

\* for line in lines: ...
RECURSIVE ParseLines(_, _)
ParseLines(result, lines) ==
    IF lines = <<>> THEN result
    ELSE ParseLines(ParseLine(result, Head(lines)), Tail(lines))

\* LLMService._parse_intent_analysis
ParseIntentAnalysis(response) ==
    ParseLines(UnknownAnalysis, Split(Strip(response), "\n"))

\* the text of the LLMServiceError _call_openai_api raises: the text of the
\* except clause that caught the exception, then str(e)
ApiErrorText(kind, message) ==
    (CASE kind = "rate_limit" -> <<"R", "a", "t", "e", " ", "l", "i", "m", "i", "t", " ", "e", "x", "c", "e", "e", "d", "e", "d">>
       [] kind = "timeout" -> <<"A", "P", "I", " ", "r", "e", "q", "u", "e", "s", "t", " ", "t", "i", "m", "e", "d", " ", "o", "u", "t">>
       [] kind = "connection" -> <<"A", "P", "I", " ", "c", "o", "n", "n", "e", "c", "t", "i", "o", "n", " ", "e", "r", "r", "o", "r">>
       [] kind = "api_error" -> <<"A", "P", "I", " ", "e", "r", "r", "o", "r">>
       [] kind = "unexpected" -> <<"U", "n", "e", "x", "p", "e", "c", "t", "e", "d", " ", "A", "P", "I", " ", "e", "r", "r", "o", "r">>)
    \o <<":", " ">> \o message

\* LLMService._call_openai_api on one answer of the API: an exception of one
\* of the kinds caught, no choices, an empty content, or a content
CallOpenaiApi(answer) ==
    IF answer.kind \in {"rate_limit", "timeout", "connection", "api_error", "unexpected"}
    THEN [ok |-> FALSE, error |-> ApiErrorText(answer.kind, answer.message)]
    ELSE IF answer.kind = "no_choices"
    THEN [ok |-> FALSE,
          error |-> ApiErrorText("unexpected", <<"N", "o", " ", "r", "e", "s", "p", "o", "n", "s", "e", " ", "c", "h", "o", "i", "c", "e", "s", " ", "r", "e", "t", "u", "r", "n", "e", "d", " ", "f", "r", "o", "m", " ", "O", "p", "e", "n", "A", "I", " ", "A", "P", "I">>)]
    ELSE IF answer.content = <<>>
    THEN [ok |-> FALSE,
          error |-> ApiErrorText("unexpected", <<"E", "m", "p", "t", "y", " ", "c", "o", "n", "t", "e", "n", "t", " ", "r", "e", "t", "u", "r", "n", "e", "d", " ", "f", "r", "o", "m", " ", "O", "p", "e", "n", "A", "I", " ", "A", "P", "I">>)]
    ELSE [ok |-> TRUE, text |-> Strip(answer.content)]

\* llm_config.max_retries
MaxRetries == 3

\* the wait that forgets the extra delay of a rate limit error
WaitTime_NoExtra(last_error, attempt) ==
    2 * (2 ^ attempt)

\* the argument of time.sleep after a failed attempt that is not the last, in
\* half seconds: (2 ** attempt) + (attempt * 0.5) when the error text mentions
\* a rate limit, 2 ** attempt otherwise
WaitTime(last_error, attempt) ==
    IF Contains(Lower(last_error), <<"r", "a", "t", "e", " ", "l", "i", "m", "i", "t">>)
    THEN 2 * (2 ^ attempt) + attempt
    ELSE 2 * (2 ^ attempt)

\* the loop that raises the error of the first attempt when all have failed
RECURSIVE RetryFrom_FirstError(_, _, _)
RetryFrom_FirstError(answers, attempt, max_retries) ==
    IF attempt > max_retries
    THEN [ok |-> FALSE, calls |-> 0, sleeps |-> <<>>,
          error |-> <<"F", "a", "i", "l", "e", "d", " ", "a", "f", "t", "e", "r", " ", "0", " ", "a", "t", "t", "e", "m", "p", "t", "s", ".", " ", "L", "a", "s", "t", " ", "e", "r", "r", "o", "r", ":", " ", "N", "o", "n", "e">>]
    ELSE LET r == CallOpenaiApi(answers[attempt])
         IN  IF r.ok THEN [ok |-> TRUE, text |-> r.text, calls |-> attempt, sleeps |-> <<>>]
             ELSE IF attempt < max_retries
             THEN [RetryFrom_FirstError(answers, attempt + 1, max_retries)
                      EXCEPT !.sleeps = <<WaitTime(r.error, attempt)>> \o @]
             ELSE [ok |-> FALSE, error |-> CallOpenaiApi(answers[1]).error,
                   calls |-> attempt, sleeps |-> <<>>]

\* the loop of _call_openai_api_with_retry from attempt on; answers[a] is what
\* the API does at attempt a.  The result carries the number of API calls made
\* and the sleeps made from this attempt on, in order.  With max_retries = 0
\* the loop is empty and the error after it is raised.
RECURSIVE RetryFrom(_, _, _)
RetryFrom(answers, attempt, max_retries) ==
    IF attempt > max_retries
    THEN [ok |-> FALSE, calls |-> 0, sleeps |-> <<>>,
          error |-> <<"F", "a", "i", "l", "e", "d", " ", "a", "f", "t", "e", "r", " ", "0", " ", "a", "t", "t", "e", "m", "p", "t", "s", ".", " ", "L", "a", "s", "t", " ", "e", "r", "r", "o", "r", ":", " ", "N", "o", "n", "e">>]
    ELSE LET r == CallOpenaiApi(answers[attempt])
         IN  IF r.ok THEN [ok |-> TRUE, text |-> r.text, calls |-> attempt, sleeps |-> <<>>]
             ELSE IF attempt < max_retries
             THEN [RetryFrom(answers, attempt + 1, max_retries)
                      EXCEPT !.sleeps = <<WaitTime(r.error, attempt)>> \o @]
             ELSE [ok |-> FALSE, error |-> r.error, calls |-> attempt, sleeps |-> <<>>]

\* LLMService._call_openai_api_with_retry
CallOpenaiApiWithRetry(answers) == RetryFrom(answers, 1, MaxRetries)

\* analyze_user_intent that answers browsing when the call raised
AnalyzeUserIntent_Browsing(answers) ==
    LET r == CallOpenaiApiWithRetry(answers)
    IN  IF r.ok THEN ParseIntentAnalysis(r.text)
        ELSE [UnknownAnalysis EXCEPT !.intent = Keyword.Browsing]

\* LLMService.analyze_user_intent
AnalyzeUserIntent(answers) ==
    LET r == CallOpenaiApiWithRetry(answers)
    IN  IF r.ok THEN ParseIntentAnalysis(r.text) ELSE UnknownAnalysis

\* generate_response, generate_greeting: the reply or the LLMServiceError
GenerateResponse(answers) == CallOpenaiApiWithRetry(answers)
GenerateGreeting(answers) == CallOpenaiApiWithRetry(answers)

----------------------------------------------------------------------------
(* services/conversation/service.py *)

\* _determine_conversation_stage with a default stage of its own
DetermineConversationStage_NoDefault(intent_analysis) ==
    LET intent == IF "intent" \in DOMAIN intent_analysis THEN intent_analysis.intent ELSE Keyword.Unknown
    IN  CASE intent = Keyword.Browsing -> "discovery"
          [] intent = Keyword.AskingQuestion -> "discovery"
          [] intent = Keyword.RequestingRecommendation -> "recommendation"
          [] intent = Keyword.ComparingProducts -> "comparison"
          [] intent = Keyword.ReadyToBuy -> "closing"
          [] intent = Keyword.Objection -> "objection_handling"
          [] OTHER -> "unknown"

\* ConversationService._determine_conversation_stage; the analysis is a dict
\* that may lack the key intent
DetermineConversationStage(intent_analysis) ==
    LET intent == IF "intent" \in DOMAIN intent_analysis THEN intent_analysis.intent ELSE Keyword.Unknown
    IN  CASE intent = Keyword.Browsing -> "discovery"
          [] intent = Keyword.AskingQuestion -> "discovery"
          [] intent = Keyword.RequestingRecommendation -> "recommendation"
          [] intent = Keyword.ComparingProducts -> "comparison"
          [] intent = Keyword.ReadyToBuy -> "closing"
          [] intent = Keyword.Objection -> "objection_handling"
          [] OTHER -> "discovery"

\* [p for p in products if p.price <= Decimal(str(budget))], products a list
\* of catalog positions
RECURSIVE KeepWithinHint(_, _, _)
KeepWithinHint(products, found, budget) ==
    IF found = <<>> THEN <<>>
    ELSE IF products[Head(found)].price <= budget
         THEN <<Head(found)>> \o KeepWithinHint(products, Tail(found), budget)
         ELSE KeepWithinHint(products, Tail(found), budget)

\* ConversationService._get_relevant_products: the products selected, as
\* positions in the catalog
GetRelevantProducts(products, u, intent_analysis, recommendation_limit) ==
    LET categories == IF "categories" \in DOMAIN intent_analysis
                      THEN intent_analysis.categories ELSE <<>>
        budget == IF "budget" \in DOMAIN intent_analysis THEN intent_analysis.budget ELSE None
        found == IF categories # <<>>
                 THEN GetProductsByCategories(products, categories, recommendation_limit)
                 ELSE GetRecommendationsForUser(products, u, recommendation_limit)
    IN  IF Truthy(budget) THEN KeepWithinHint(products, found, budget) ELSE found

\* conversation.add_*_message(content, metadata) on a conversation of status
\* st and history msgs: the history it leaves and the error it raises
TryAdd(st, msgs, role, content, md) ==
    IF ~ContentOk(content)
    THEN [ok |-> FALSE, messages |-> msgs, error |-> "Message content cannot be empty"]
    ELSE IF ~IsActive(st)
    THEN [ok |-> FALSE, messages |-> msgs, error |-> "Cannot add message to inactive conversation"]
    ELSE [ok |-> TRUE, messages |-> Append(msgs, [NewMessage(role, content) EXCEPT !.metadata = md]),
          error |-> ""]

----------------------------------------------------------------------------
(* The products file and the personas the engine is run on *)

\* the texts the products file and the personas are made of
Word ==
    [ PC |-> <<"P", "C">>,
      pc |-> <<"p", "c">>,
      TV |-> <<"T", "V">>,
      Air |-> <<"A", "i", "r">>,
      Box |-> <<"B", "o", "x">>,
      SSD |-> <<"S", "S", "D">>,
      HDD |-> <<"H", "D", "D">>,
      ssd |-> <<"s", "s", "d">>,
      AIR |-> <<"A", "I", "R">>,
      oled |-> <<"o", "l", "e", "d">>,
      Fast |-> <<"F", "a", "s", "t">>,
      DescFast |-> <<"f", "a", "s", "t", " ", "l", "a", "p", "t", "o", "p">>,
      DescPlain |-> <<"p", "l", "a", "i", "n", " ", "t", "h", "i", "n", "g">>,
      Lap |-> <<"L", "a", "p">>,
      lap |-> <<"l", "a", "p">>,
      Desk |-> <<"D", "e", "s", "k">>,
      Acme |-> <<"A", "c", "m", "e">>,
      ACME |-> <<"A", "C", "M", "E">>,
      Zen |-> <<"Z", "e", "n">>,
      New |-> <<"n", "e", "w">>,
      NewUpper |-> <<"N", "E", "W">>,
      Pro |-> <<"p", "r", "o">> ]

\* one item of the products file
Item(id, category, name, description, features, price, discount, featured, rating, stock_status, quantity, reorder) ==
    [product_id |-> id, category |-> category, subcategory |-> Word.Lap, brand |-> Word.Acme,
     price_tier |-> "budget", tags |-> <<>>, name |-> name, description |-> description,
     features |-> features, price |-> price, discount_percentage |-> discount,
     is_featured |-> featured, rating |-> rating, stock_status |-> stock_status,
     stock_quantity |-> quantity, reorder_level |-> reorder]

\* priced 200, category PC, features SSD, name Air, featured, on sale, rated 4.6
ItemA == Item(<<"A">>, Word.PC, Word.Air, Word.DescPlain, <<Word.SSD>>, 200, 10, TRUE, 46, "in_stock", 50, 5)
\* the same product priced 350
ItemB == Item(<<"B">>, Word.PC, Word.Air, Word.DescPlain, <<Word.SSD>>, 350, 10, TRUE, 46, "in_stock", 50, 5)
\* priced 600, otherwise attractive
ItemC == Item(<<"C">>, Word.PC, Word.Air, Word.DescFast, <<Word.SSD>>, 600, 20, TRUE, 50, "in_stock", 50, 5)
\* a TV at 150, supplied in_stock with the quantity under the reorder level
ItemD == Item(<<"D">>, Word.TV, Word.Box, Word.DescPlain, <<Word.HDD>>, 150, 0, FALSE, 40, "in_stock", 3, 5)
\* supplied in_stock with quantity 0
ItemE == Item(<<"E">>, Word.pc, Word.Air, Word.DescFast, <<Word.SSD>>, 200, 10, TRUE, 46, "in_stock", 0, 5)
\* a TV at 50
ItemF == Item(<<"F">>, Word.TV, Word.Box, Word.DescFast, <<Word.HDD, Word.SSD>>, 50, 0, FALSE, 44, "low_stock", 2, 5)
\* discontinued
ItemG == Item(<<"G">>, Word.PC, Word.Box, Word.DescPlain, <<Word.HDD>>, 500, 0, FALSE, 45, "discontinued", 4, 5)
\* the twin of A under another id
ItemH == Item(<<"H">>, Word.PC, Word.Air, Word.DescPlain, <<Word.SSD>>, 200, 10, TRUE, 46, "in_stock", 50, 5)

Items == {ItemA, ItemB, ItemC, ItemD, ItemE, ItemF, ItemG, ItemH}

\* budget 100..500 with sweet spot 300, interested in pc, values ssd, AIR, oled
Ana == [persona_id |-> "ana",
        budget_range |-> [min |-> 100, max |-> 500, sweet_spot |-> 300],
        categories_of_interest |-> <<Word.pc>>,
        key_features_valued |-> <<Word.ssd, Word.AIR, Word.oled>>]
\* budget 0..200 without sweet spot, interested in TV, values nothing
Bo == [persona_id |-> "bo",
       budget_range |-> [min |-> 0, max |-> 200],
       categories_of_interest |-> <<Word.TV>>,
       key_features_valued |-> <<>>]
\* budget 200..350 with sweet spot 200, values Fast twice
Cy == [persona_id |-> "cy",
       budget_range |-> [min |-> 200, max |-> 350, sweet_spot |-> 200],
       categories_of_interest |-> <<Word.TV, Word.PC>>,
       key_features_valued |-> <<Word.Fast, Word.Fast>>]

Personas == {Ana, Bo, Cy}

\* the products files of 1..MaxCatalog items with distinct product ids
ProductFiles ==
    {f \in UNION {[1..n -> Items] : n \in 1..MaxCatalog} :
        \A i, j \in 1..Len(f) : i # j => f[i].product_id # f[j].product_id}

\* ProductRepository._load_products_from_file
LoadProducts(file) == [i \in 1..Len(file) |-> FromDict(file[i])]

\* single products over a grid of the attributes the score reads
ScoreItems ==
    {Item(<<"P">>, c, n, d, f, pr, dc, ft, rt, "in_stock", 50, 5) :
        c \in {Word.PC, Word.pc, Word.TV}, n \in {Word.Air, Word.Box}, d \in {Word.DescFast, Word.DescPlain},
        f \in {<<Word.SSD>>, <<Word.HDD>>, <<Word.HDD, Word.SSD>>},
        pr \in {99, 100, 200, 300, 301, 350, 500, 501},
        dc \in {0, 10}, ft \in BOOLEAN, rt \in {39, 40, 44, 45, 46}}

----------------------------------------------------------------------------
(* The product service: one action per call *)

\* the conversation is not part of these specifications
ConvIdle ==
    /\ clock = 0
    /\ CreateNew(0)

\* The calls below read the catalog and change nothing of the service, so a
\* run makes one call on the loaded catalog.
FirstCall == rec.op = "load"

\* ProductService.get_recommendations_for_user(user, limit)
CallGetRecommendationsForUser ==
    \E u \in Personas, lim \in 0..MaxLimit :
       /\ FirstCall
       /\ PersonaOk(u)
       /\ user' = u
       /\ limit' = lim
       /\ scored' = ScoredProducts(catalog, u)
       /\ rec' = [op |-> "get_recommendations_for_user",
                  ret |-> GetRecommendationsForUser(catalog, u, lim)]
       /\ UNCHANGED catalog

\* ProductService._calculate_product_score_for_user(product, user)
CallCalculateProductScoreForUser ==
    \E u \in Personas, i \in 1..Len(catalog) :
       /\ FirstCall
       /\ PersonaOk(u)
       /\ user' = u
       /\ rec' = [op |-> "_calculate_product_score_for_user",
                  arg |-> i,
                  ret |-> CalculateProductScoreForUser(catalog[i], u)]
       /\ UNCHANGED <<catalog, limit, scored>>

\* largest stock quantity and reorder level a stock record is constructed with
MaxQuantity == 3

\* ProductStockSchema(status=..., quantity=..., reorder_level=...): the
\* construction reads nothing of the program's state, so a run constructs one record
CallProductStockSchema ==
    \E stock_status \in StockStatus, quantity \in -1..MaxQuantity, reorder_level \in -1..MaxQuantity :
       /\ rec.op # "ProductStockSchema"
       /\ rec' = [op |-> "ProductStockSchema",
                  arg |-> [status |-> stock_status, quantity |-> quantity, reorder_level |-> reorder_level],
                  ret |-> ProductStockSchema(stock_status, quantity, reorder_level)]
       /\ UNCHANGED <<catalog, user, limit, scored>>

NextStock ==
    \/ (CallProductStockSchema /\ UNCHANGED <<convVars, svcVars>>)

SpecStock == Init /\ [][NextStock]_vars

InitRec ==
    /\ ConvIdle
    /\ SvcIdle
    /\ \E file \in ProductFiles :
          /\ \A i \in 1..Len(file) : DataOk(file[i])
          /\ catalog = LoadProducts(file)
    /\ user = None
    /\ limit = 0
    /\ scored = <<>>
    /\ rec = [op |-> "load", ret |-> <<>>]

NextRec ==
    \/ (CallGetRecommendationsForUser /\ UNCHANGED <<convVars, svcVars>>)

SpecRec == InitRec /\ [][NextRec]_vars

InitScore ==
    /\ ConvIdle
    /\ SvcIdle
    /\ \E data \in ScoreItems :
          /\ DataOk(data)
          /\ catalog = LoadProducts(<<data>>)
    /\ user = None
    /\ limit = 0
    /\ scored = <<>>
    /\ rec = [op |-> "load", ret |-> <<>>]

NextScore ==
    \/ (CallCalculateProductScoreForUser /\ UNCHANGED <<convVars, svcVars>>)

SpecScore == InitScore /\ [][NextScore]_vars

\* one item of the products file, by the attributes the similarity score reads
SimItem(id, category, subcategory, brand, price, tier, tags, stock_status) ==
    [Item(id, category, Word.Air, Word.DescPlain, <<Word.SSD>>, price, 0, FALSE, 40, stock_status, 50, 5)
        EXCEPT !.subcategory = subcategory, !.brand = brand, !.price_tier = tier, !.tags = tags]

\* single products over a grid of the attributes the similarity score reads,
\* each next to the product it is compared with, whose tag list repeats a tag
SimScoreFiles ==
    {<<SimItem(<<"R">>, Word.PC, Word.Lap, Word.Acme, 300, "mid_range", <<Word.New, Word.Pro, Word.New>>, "in_stock"),
       SimItem(<<"Q">>, Word.PC, sc, br, pr, tr, tg, "in_stock")>> :
        sc \in {Word.Lap, Word.lap, Word.Desk}, br \in {Word.Acme, Word.ACME, Word.Zen},
        pr \in {99, 100, 101, 200, 201, 250, 251, 300, 349, 350, 399, 400, 499, 500, 501},
        tr \in {"mid_range", "premium"},
        tg \in {<<>>, <<Word.New>>, <<Word.NewUpper>>, <<Word.Pro, Word.New>>, <<Word.Pro, Word.Pro>>}}

\* ProductService._calculate_similarity_score(product1, product2)
CallCalculateSimilarityScore ==
    \E i, j \in 1..Len(catalog) :
       /\ FirstCall
       /\ rec' = [op |-> "_calculate_similarity_score",
                  arg |-> <<i, j>>,
                  ret |-> CalculateSimilarityScore(catalog[i], catalog[j])]
       /\ UNCHANGED <<catalog, user, limit, scored>>

InitSimScore ==
    /\ ConvIdle
    /\ SvcIdle
    /\ \E file \in SimScoreFiles :
          /\ \A i \in 1..Len(file) : DataOk(file[i])
          /\ catalog = LoadProducts(file)
    /\ user = None
    /\ limit = 0
    /\ scored = <<>>
    /\ rec = [op |-> "load", ret |-> <<>>]

NextSimScore ==
    \/ (CallCalculateSimilarityScore /\ UNCHANGED <<convVars, svcVars>>)

SpecSimScore == InitSimScore /\ [][NextSimScore]_vars

\* a PC laptop by Acme at 300 (A) and its neighbours: its twin under another
\* id (B), the same category in lower case, another brand, 50 away (C), a
\* desktop far away in price (D), a PC that is out of stock (E), a TV with the
\* attributes of A (F) and a second TV (G)
SimItems ==
    { SimItem(<<"A">>, Word.PC, Word.Lap, Word.Acme, 300, "mid_range", <<Word.New>>, "in_stock"),
      SimItem(<<"B">>, Word.PC, Word.Lap, Word.Acme, 300, "mid_range", <<Word.New>>, "in_stock"),
      SimItem(<<"C">>, Word.pc, Word.Lap, Word.Zen, 350, "mid_range", <<Word.New, Word.Pro>>, "in_stock"),
      SimItem(<<"D">>, Word.PC, Word.Desk, Word.Zen, 550, "premium", <<>>, "low_stock"),
      SimItem(<<"E">>, Word.PC, Word.Lap, Word.Acme, 300, "mid_range", <<Word.New>>, "out_of_stock"),
      SimItem(<<"F">>, Word.TV, Word.Lap, Word.Acme, 300, "mid_range", <<Word.New>>, "in_stock"),
      SimItem(<<"G">>, Word.TV, Word.Desk, Word.Acme, 320, "budget", <<Word.Pro>>, "in_stock") }

\* the products files of 1..MaxCatalog of these items with distinct product ids
SimFiles ==
    {f \in UNION {[1..n -> SimItems] : n \in 1..MaxCatalog} :
        \A i, j \in 1..Len(f) : i # j => f[i].product_id # f[j].product_id}

\* ProductService.get_similar_products(product, limit); the product is any
\* product, in the catalog or not
CallGetSimilarProducts ==
    \E data \in SimItems, lim \in 0..MaxLimit :
       /\ FirstCall
       /\ limit' = lim
       /\ scored' = SimilarProducts(catalog, FromDict(data))
       /\ rec' = [op |-> "get_similar_products",
                  arg |-> FromDict(data),
                  ret |-> GetSimilarProducts(catalog, FromDict(data), lim)]
       /\ UNCHANGED <<catalog, user>>

InitSim ==
    /\ ConvIdle
    /\ SvcIdle
    /\ \E file \in SimFiles :
          /\ \A i \in 1..Len(file) : DataOk(file[i])
          /\ catalog = LoadProducts(file)
    /\ user = None
    /\ limit = 0
    /\ scored = <<>>
    /\ rec = [op |-> "load", ret |-> <<>>]

NextSim ==
    \/ (CallGetSimilarProducts /\ UNCHANGED <<convVars, svcVars>>)

SpecSim == InitSim /\ [][NextSim]_vars

\* ProductService.get_products_by_categories(categories, limit); the limit is
\* None (the default) or a number
CallGetProductsByCategories ==
    \E categories \in {<<>>, <<Word.pc>>, <<Word.TV, Word.PC>>, <<Word.PC, Word.pc>>, <<Word.Box>>},
       lim \in {None} \cup (0..MaxLimit) :
       /\ FirstCall
       /\ limit' = lim
       /\ rec' = [op |-> "get_products_by_categories",
                  arg |-> categories,
                  ret |-> GetProductsByCategories(catalog, categories, lim)]
       /\ UNCHANGED <<catalog, user, scored>>

NextCat ==
    \/ (CallGetProductsByCategories /\ UNCHANGED <<convVars, svcVars>>)

SpecCat == InitRec /\ [][NextCat]_vars

----------------------------------------------------------------------------
(* The conversation state machine: claims *)

AddOps == {"add_message", "add_user_message", "add_assistant_message", "add_system_message"}
EndOps == {"complete_conversation", "abandon_conversation"}

C1_Step ==
    /\ status' # status =>
          /\ status = "active"
          /\ \/ status' = "completed" /\ last'.op = "complete_conversation"
             \/ status' = "abandoned" /\ last'.op = "abandon_conversation"
    /\ status # "active" => status' = status

\* C1: a conversation made by create_new starts active; its status changes only
\* active -> completed (by complete_conversation) or active -> abandoned (by
\* abandon_conversation); a completed or abandoned status never changes again.
C1_StatusTransitions == (status = "active") /\ [][C1_Step]_vars

\* a successful complete_conversation, then a later call that leaves it completed
C1_Witness ==
    /\ status = "completed"
    /\ last.op = "abandon_conversation"
    /\ ended_at # None

\* C2: an add_message / add_user_message / add_assistant_message /
\* add_system_message call on a conversation that is not active fails and
\* leaves the history, the status and the end timestamp as they were.
C2_AddOnInactiveFails ==
    [][(last'.op \in AddOps /\ status # "active") =>
          /\ ~last'.ok
          /\ messages' = messages
          /\ status' = status
          /\ ended_at' = ended_at]_vars

\* add_user_message with acceptable content refused on a completed conversation
C2_Witness ==
    /\ status = "completed"
    /\ last.op = "add_user_message"
    /\ ~last.ok
    /\ last.ret = "Cannot add message to inactive conversation"
    /\ Len(messages) > 0

\* C3: complete_conversation or abandon_conversation on a conversation that is
\* already completed or abandoned fails and leaves the status and the end
\* timestamp as the first successful call set them.
C3_EndOnTerminalFails ==
    [][(last'.op \in EndOps /\ status # "active") =>
          /\ ~last'.ok
          /\ status' = status
          /\ ended_at' = ended_at]_vars

\* abandoned at an earlier time, then complete_conversation refused
C3_Witness ==
    /\ status = "abandoned"
    /\ last.op = "complete_conversation"
    /\ ~last.ok
    /\ ended_at < clock

\* C4: with a clock that never goes back, ended_at is unset exactly while the
\* status is active and is >= started_at otherwise; get_duration_seconds
\* returns None exactly while active and ended_at - started_at once terminal.
C4_EndTimestampAndDuration ==
    /\ (ended_at = None) <=> (status = "active")
    /\ status # "active" => ended_at >= started_at
    /\ last.op = "get_duration_seconds" =>
          /\ (last.ret = None) <=> (status = "active")
          /\ status # "active" => last.ret = ended_at - started_at

\* a duration of one tick read from a completed conversation
C4_Witness ==
    /\ status = "completed"
    /\ last.op = "get_duration_seconds"
    /\ ended_at > started_at
    /\ last.ret = 1

----------------------------------------------------------------------------
(* The context window: claims *)

Range(s) == {s[i] : i \in 1..Len(s)}

\* C5: get_context_window(n) returns no system message and at most n messages
\* (none for n < 0), in the order of the history, and every message returned
\* is later in the history than every non-system message left out.
C5_ContextWindowSafe ==
    last.op = "get_context_window" =>
       LET w == last.ret
           n == last.arg
       IN  /\ \A i \in 1..Len(w) : w[i] \in 1..Len(messages) /\ messages[w[i]].role # "system"
           /\ Len(w) <= Max(n, 0)
           /\ \A i, j \in 1..Len(w) : i < j => w[i] < w[j]
           /\ \A p \in 1..Len(messages) :
                 (messages[p].role # "system" /\ p \notin Range(w)) =>
                    \A i \in 1..Len(w) : p < w[i]

\* a window that dropped a system message and left an older user message out
C5_Witness ==
    /\ last.op = "get_context_window"
    /\ last.arg = 2
    /\ Len(messages) = 3
    /\ messages[1].role = "user"
    /\ messages[2].role = "system"
    /\ last.ret = <<3>>

\* the last n elements of h: all of h when it has fewer, none when n <= 0
LastN(h, n) ==
    IF n <= 0 THEN <<>>
    ELSE IF Len(h) <= n THEN h ELSE SubSeq(h, Len(h) - n + 1, Len(h))

NotSystemRole(m) == m.role # "system"

\* C6: get_context_window(n) is the last n messages of the history (all when
\* fewer than n exist, none when n <= 0) without the system messages, and
\* get_messages_for_llm(n) is that list as role/content pairs.
C6_ContextWindowExact ==
    LET expected == SelectSeq(LastN(messages, last.arg), NotSystemRole)
    IN  /\ last.op = "get_context_window" =>
           [i \in 1..Len(last.ret) |-> messages[last.ret[i]]] = expected
        /\ last.op = "get_messages_for_llm" =>
           last.ret = [i \in 1..Len(expected) |->
                          [role |-> expected[i].role, content |-> expected[i].content]]

\* the payload of the last two of three messages, with two different contents
C6_Witness ==
    /\ last.op = "get_messages_for_llm"
    /\ last.arg = 2
    /\ Len(messages) = 3
    /\ Len(last.ret) = 2
    /\ last.ret[1].role = "user"
    /\ last.ret[2].role = "assistant"
    /\ last.ret[1].content # last.ret[2].content

----------------------------------------------------------------------------
(* The recommendation engine: claims *)

Recommended == rec.op = "get_recommendations_for_user"

\* C7: get_recommendations_for_user never returns a product priced below
\* budget_min or above budget_max, whatever the limit.
C7_NeverOutOfBudget ==
    Recommended =>
       \A k \in 1..Len(rec.ret) :
          /\ catalog[rec.ret[k]].price >= user.budget_range.min
          /\ catalog[rec.ret[k]].price <= user.budget_range.max

AvailablePositions ==
    {i \in 1..Len(catalog) : catalog[i].stock_status \in {"in_stock", "low_stock"}}

ScoreAt(i) == CalculateProductScoreForUser(catalog[i], user)

\* i is ranked before j: greater score, or equal score and earlier in the catalog
RankedBefore(i, j) ==
    \/ ScoreAt(i) > ScoreAt(j)
    \/ ScoreAt(i) = ScoreAt(j) /\ i < j

\* C8: get_recommendations_for_user returns only available products, by
\* non-increasing score with equal scores in catalog order, and they are the
\* top limit of that ordering (all of them when fewer are available).
C8_RankedAvailableTopLimit ==
    Recommended =>
       LET r == rec.ret
       IN  /\ \A k \in 1..Len(r) : r[k] \in AvailablePositions
           /\ \A k \in 1..(Len(r) - 1) : RankedBefore(r[k], r[k + 1])
           /\ Len(r) = Min(limit, Cardinality(AvailablePositions))
           /\ \A q \in AvailablePositions \ Range(r) :
                 \A k \in 1..Len(r) : RankedBefore(r[k], q)

\* two products of equal score and an unavailable one, limit 1: the earlier twin wins
C8_Witness ==
    /\ Recommended
    /\ limit = 1
    /\ Len(catalog) = 3
    /\ ScoreAt(1) = ScoreAt(2)
    /\ ScoreAt(1) > 0
    /\ catalog[3].stock_status = "out_of_stock"
    /\ rec.ret = <<1>>

\* a and b are equal but for the case of their letters
CaseEq(a, b) ==
    /\ Len(a) = Len(b)
    /\ \A i \in 1..Len(a) :
          \/ a[i] = b[i]
          \/ a[i] \in DOMAIN LowerOf /\ LowerOf[a[i]] = b[i]
          \/ b[i] \in DOMAIN LowerOf /\ LowerOf[b[i]] = a[i]

\* keyword is a case-insensitive substring of text
CaseSubstring(keyword, text) ==
    \E i \in 1..(Len(text) + 1) :
       /\ i + Len(keyword) - 1 <= Len(text)
       /\ CaseEq(SubSeq(text, i, i + Len(keyword) - 1), keyword)

\* the persona-valued features (by position in the list) the product matches
MatchedFeatures(product, u) ==
    {k \in 1..Len(u.key_features_valued) :
        LET keyword == u.key_features_valued[k]
        IN  \/ \E f \in 1..Len(product.features) : CaseSubstring(keyword, product.features[f])
            \/ CaseSubstring(keyword, product.name)
            \/ CaseSubstring(keyword, product.description)}

\* C9: inside the budget the score is 10, + 5 if price <= sweet_spot
\* (budget_max when unset), + 15 if the category equals a category of interest
\* ignoring case, + 3 per valued feature that is a case-insensitive substring
\* of a feature, the name or the description, + 2 if featured, + 3 if on sale,
\* + 4 if rating >= 4.5 or 2 if 4.0 <= rating < 4.5; outside the budget it is 0.
C9_ScoreFormula ==
    rec.op = "_calculate_product_score_for_user" =>
       LET product == catalog[rec.arg]
           budget == user.budget_range
           sweet == IF "sweet_spot" \in DOMAIN budget THEN budget.sweet_spot ELSE budget.max
           interested == \E c \in 1..Len(user.categories_of_interest) :
                            CaseEq(user.categories_of_interest[c], product.category)
       IN  IF product.price >= budget.min /\ product.price <= budget.max
           THEN rec.ret = 10
                          + (IF product.price <= sweet THEN 5 ELSE 0)
                          + (IF interested THEN 15 ELSE 0)
                          + 3 * Cardinality(MatchedFeatures(product, user))
                          + (IF product.is_featured THEN 2 ELSE 0)
                          + (IF product.discount_percentage > 0 THEN 3 ELSE 0)
                          + (IF product.rating >= 45 THEN 4
                             ELSE IF product.rating >= 40 /\ product.rating < 45 THEN 2
                             ELSE 0)
           ELSE rec.ret = 0

\* a product rated exactly 4.5 that collects every bonus
C9_Witness ==
    /\ rec.op = "_calculate_product_score_for_user"
    /\ catalog[rec.arg].rating = 45
    /\ catalog[rec.arg].price = 300
    /\ Cardinality(MatchedFeatures(catalog[rec.arg], user)) = 2
    /\ rec.ret = 45

\* the persona of the example: budget 100..500, sweet spot 300
ExamplePersona(u) ==
    /\ u.budget_range.min = 100
    /\ u.budget_range.max = 500
    /\ "sweet_spot" \in DOMAIN u.budget_range
    /\ u.budget_range.sweet_spot = 300

\* the first product of the example, for persona u
ExampleFirst(product, u) ==
    /\ product.price = 200
    /\ \E c \in 1..Len(u.categories_of_interest) :
          CaseEq(u.categories_of_interest[c], product.category)
    /\ Cardinality(MatchedFeatures(product, u)) = 2
    /\ product.is_featured
    /\ product.discount_percentage > 0
    /\ product.rating = 46

\* the second product of the example: the first one priced 350
ExampleSecond(second, first) ==
    second = [first EXCEPT !.price = 350, !.product_id = second.product_id]

\* the example with the scores first and second, over every result that
\* holds both products
ExampleScores(first, second) ==
    (Recommended /\ ExamplePersona(user)) =>
       \A i, j \in 1..Len(rec.ret) :
          (/\ ExampleFirst(catalog[rec.ret[i]], user)
           /\ ExampleSecond(catalog[rec.ret[j]], catalog[rec.ret[i]])) =>
             /\ scored[i].product = rec.ret[i] /\ scored[i].score = first
             /\ scored[j].product = rec.ret[j] /\ scored[j].score = second
             /\ i < j

\* C10 as stated: the product at 200 scores 40, the one at 350 scores 34 and is
\* ranked after it.
C10_AsStated == ExampleScores(40, 34)

\* C10: with budget 100..500 and sweet spot 300, the product at 200 (interested
\* category, 2 valued features matched, featured, on sale, rated 4.6) scores 45,
\* the same product at 350 scores 40 and is ranked after it.
C10_ExampleScores == ExampleScores(45, 40)

\* both products returned, the one at 350 earlier in the catalog
C10_Witness ==
    /\ Recommended
    /\ ExamplePersona(user)
    /\ Len(rec.ret) = 2
    /\ ExampleFirst(catalog[rec.ret[1]], user)
    /\ ExampleSecond(catalog[rec.ret[2]], catalog[rec.ret[1]])
    /\ rec.ret[2] < rec.ret[1]

----------------------------------------------------------------------------
(* The classifier's answers and what the services make of them *)

\* the answers of the classifier: an intent line, a categories line and a
\* budget line; an empty text is a missing line
ClassifierTexts ==
    LET IntentLines ==
            {<<"I", "n", "t", "e", "n", "t", ":", " ", "b", "r", "o", "w", "s", "i", "n", "g">>,
             <<"I", "n", "t", "e", "n", "t", ":", " ", "a", "s", "k", "i", "n", "g", "_", "q", "u", "e", "s", "t", "i", "o", "n">>,
             <<"I", "n", "t", "e", "n", "t", ":", " ", "r", "e", "q", "u", "e", "s", "t", "i", "n", "g", "_", "r", "e", "c", "o", "m", "m", "e", "n", "d", "a", "t", "i", "o", "n">>,
             <<"I", "n", "t", "e", "n", "t", ":", " ", "c", "o", "m", "p", "a", "r", "i", "n", "g", "_", "p", "r", "o", "d", "u", "c", "t", "s">>,
             <<"i", "n", "t", "e", "n", "t", " ", ":", " ", "R", "e", "a", "d", "y", "_", "T", "o", "_", "B", "u", "y">>,
             <<"I", "N", "T", "E", "N", "T", ":", "o", "b", "j", "e", "c", "t", "i", "o", "n">>,
             <<"I", "n", "t", "e", "n", "t", ":", " ", "u", "n", "k", "n", "o", "w", "n">>,
             <<"I", "n", "t", "e", "n", "t", ":", " ", "p", "u", "r", "c", "h", "a", "s", "e">>,
             <<"I", "n", "t", "e", "n", "t", ":">>,
             <<"I", "n", "t", "e", "n", "t", " ", "b", "r", "o", "w", "s", "i", "n", "g">>,
             <<>>}
        CategoryLines ==
            {<<"C", "a", "t", "e", "g", "o", "r", "i", "e", "s", ":", " ", "n", "o", "n", "e">>,
             <<"C", "a", "t", "e", "g", "o", "r", "i", "e", "s", ":", " ", "p", "c">>,
             <<"C", "a", "t", "e", "g", "o", "r", "i", "e", "s", ":", " ", "T", "V", " ", ",", " ", "P", "C">>,
             <<>>}
        BudgetLines ==
            {<<"B", "u", "d", "g", "e", "t", ":", " ", "n", "o", "t", " ", "m", "e", "n", "t", "i", "o", "n", "e", "d">>,
             <<"B", "u", "d", "g", "e", "t", ":", " ", "$", "2", "0", "0">>,
             <<"B", "u", "d", "g", "e", "t", ":", " ", "1", ",", "0", "0", "0">>,
             <<"B", "u", "d", "g", "e", "t", ":", " ", "0">>,
             <<"B", "u", "d", "g", "e", "t", ":", " ", "c", "h", "e", "a", "p">>,
             <<>>}
    IN
    {i \o <<"\n">> \o c \o <<"\n">> \o b :
        i \in IntentLines, c \in CategoryLines, b \in BudgetLines}

\* what the API does over the attempts of one call: it raises at the first
\* failures attempts and then answers with content
ApiRuns(contents, failureCounts, kinds) ==
    {[a \in 1..MaxRetries |->
        IF a <= f THEN [kind |-> k, message |-> <<"5", "0", "3">>]
        ELSE [kind |-> "content", content |-> c]] :
        f \in failureCounts, k \in kinds, c \in contents}

\* The calls below read no state and change none, so a run makes one call.

\* LLMService._parse_intent_analysis(response)
CallParseIntentAnalysis ==
    \E text \in ClassifierTexts :
       /\ svc.op = "none"
       /\ svc' = [op |-> "_parse_intent_analysis", arg |-> text,
                  ret |-> ParseIntentAnalysis(text)]
       /\ UNCHANGED <<conversation_id, active_conversations, settings, logged>>

\* LLMService.analyze_user_intent(user_message)
CallAnalyzeUserIntent ==
    \E answers \in ApiRuns(ClassifierTexts, {1, MaxRetries}, {"rate_limit", "no_choices"}) :
       /\ svc.op = "none"
       /\ svc' = [op |-> "analyze_user_intent", arg |-> answers,
                  ret |-> AnalyzeUserIntent(answers)]
       /\ UNCHANGED <<conversation_id, active_conversations, settings, logged>>

\* ConversationService._determine_conversation_stage(intent_analysis) on the
\* parsed analyses, one without an intent and one with an empty intent
CallDetermineConversationStage ==
    /\ svc.op = "none"
    /\ \E intent_analysis \in
             {ParseIntentAnalysis(t) : t \in ClassifierTexts}
             \cup {[categories |-> <<>>, budget |-> None],
                   [UnknownAnalysis EXCEPT !.intent = <<>>]} :
       /\ svc' = [op |-> "_determine_conversation_stage", arg |-> intent_analysis,
                  ret |-> DetermineConversationStage(intent_analysis)]
       /\ UNCHANGED <<conversation_id, active_conversations, settings, logged>>

\* what the API does at one attempt: it raises an exception of some kind with
\* some message, answers without choices, or answers with a content
ApiAnswers ==
    {[kind |-> k, message |-> m] :
        k \in {"rate_limit", "timeout", "unexpected"},
        m \in {<<"5", "0", "3">>, <<"R", "a", "t", "e", " ", "L", "i", "m", "i", "t">>}}
    \cup {[kind |-> "no_choices"], [kind |-> "content", content |-> Keyword.Sure]}

\* LLMService._call_openai_api_with_retry(messages) under a configured
\* llm_config.max_retries of 0..MaxRetries
CallCallOpenaiApiWithRetry ==
    \E answers \in [1..MaxRetries -> ApiAnswers], max_retries \in 0..MaxRetries :
       /\ svc.op = "none"
       /\ svc' = [op |-> "_call_openai_api_with_retry", arg |-> answers,
                  max_retries |-> max_retries,
                  ret |-> RetryFrom(answers, 1, max_retries)]
       /\ UNCHANGED <<conversation_id, active_conversations, settings, logged>>

NextIntent ==
    \/ (CallParseIntentAnalysis /\ UNCHANGED <<convVars, recVars>>)
    \/ (CallAnalyzeUserIntent /\ UNCHANGED <<convVars, recVars>>)
    \/ (CallDetermineConversationStage /\ UNCHANGED <<convVars, recVars>>)
    \/ (CallCallOpenaiApiWithRetry /\ UNCHANGED <<convVars, recVars>>)

SpecIntent == Init /\ [][NextIntent]_vars

\* ConversationService._get_relevant_products(user, intent_analysis):
\* categories named or not, a budget hint or none
CallGetRelevantProducts ==
    \E u \in {Ana, Bo}, c \in {<<>>, <<Word.TV, Word.PC>>}, b \in {None, 0, 200} :
    \E intent_analysis \in {[UnknownAnalysis EXCEPT !.categories = c, !.budget = b]} :
       /\ FirstCall
       /\ PersonaOk(u)
       /\ user' = u
       /\ rec' = [op |-> "_get_relevant_products",
                  arg |-> intent_analysis,
                  ret |-> GetRelevantProducts(catalog, u, intent_analysis,
                                              settings.product_recommendation_limit)]
       /\ UNCHANGED <<catalog, limit, scored>>

InitRelevant ==
    /\ ConvIdle
    /\ conversation_id = None
    /\ active_conversations = {}
    /\ \E lim \in {1, MaxLimit} :
          settings = [greeting_enabled |-> FALSE, product_recommendation_limit |-> lim,
                      enable_logging |-> FALSE]
    /\ svc = [op |-> "none"]
    /\ logged = <<>>
    /\ \E file \in ProductFiles :
          /\ \A i \in 1..Len(file) : DataOk(file[i])
          /\ catalog = LoadProducts(file)
    /\ user = None
    /\ limit = 0
    /\ scored = <<>>
    /\ rec = [op |-> "load", ret |-> <<>>]

NextRelevant ==
    \/ (CallGetRelevantProducts /\ UNCHANGED <<convVars, svcVars>>)

SpecRelevant == InitRelevant /\ [][NextRelevant]_vars

----------------------------------------------------------------------------
(* The conversation service: one action per operation.  The model follows   *)
(* the one conversation the service starts; before that the caller holds a  *)
(* conversation made by Conversation.create_new that is not registered.     *)


\* what the API answers when asked for a greeting or a reply
ReplyContents == {Keyword.Sure, <<" ">>}

\* the classifier's answers the turns are run with
TurnTexts ==
    {<<"I", "n", "t", "e", "n", "t", ":", " ", "R", "E", "A", "D", "Y", "_", "T", "O", "_", "B", "U", "Y", "\n", "C", "a", "t", "e", "g", "o", "r", "i", "e", "s", ":", " ", "n", "o", "n", "e", "\n", "B", "u", "d", "g", "e", "t", ":", " ", "n", "o", "t", " ", "m", "e", "n", "t", "i", "o", "n", "e", "d">>,
     <<"I", "n", "t", "e", "n", "t", ":", " ", "p", "u", "r", "c", "h", "a", "s", "e", "\n", "C", "a", "t", "e", "g", "o", "r", "i", "e", "s", ":", " ", "p", "c", "\n", "B", "u", "d", "g", "e", "t", ":", " ", "$", "2", "0", "0">>,
     <<"C", "a", "t", "e", "g", "o", "r", "i", "e", "s", ":", " ", "T", "V", "\n", "B", "u", "d", "g", "e", "t", ":", " ", "0">>,
     <<"s", "o", "r", "r", "y">>}

\* uuid4: the id of the conversation the service makes
NewConversationId == 1

\* a registry that drops the conversation handed to it
Register_Forget(registry, id) == registry

\* self._active_conversations[conversation_id] = conversation
Register(registry, id) == registry \cup {id}

\* ConversationService.start_conversation(user)
StartConversation ==
    \E u \in Personas, answers \in ApiRuns(ReplyContents, {0, MaxRetries}, {"timeout"}) :
       LET greeting == GenerateGreeting(answers)
           added == TryAdd("active", <<>>, "assistant",
                           IF greeting.ok THEN greeting.text ELSE <<>>, EmptyDict)
       IN  /\ conversation_id = None
           /\ conversation_id' = NewConversationId
           /\ status' = "active"
           /\ started_at' = clock
           /\ ended_at' = None
           /\ metadata' = [user_name |-> u.persona_id]
           /\ active_conversations' = Register(active_conversations, NewConversationId)
           /\ IF ~settings.greeting_enabled
              THEN /\ messages' = <<>>
                   /\ last' = Called("create_new", clock, TRUE, None)
                   /\ svc' = [op |-> "start_conversation", ok |-> TRUE, ret |-> NewConversationId]
              ELSE IF ~greeting.ok
              THEN /\ messages' = <<>>
                   /\ last' = Called("create_new", clock, TRUE, None)
                   /\ svc' = [op |-> "start_conversation", ok |-> FALSE,
                              ret |-> "Failed to start conversation", cause |-> greeting.error]
              ELSE IF ~added.ok
              THEN /\ messages' = <<>>
                   /\ last' = Called("add_assistant_message", None, FALSE, added.error)
                   /\ svc' = [op |-> "start_conversation", ok |-> FALSE,
                              ret |-> "Failed to start conversation", cause |-> added.error]
              ELSE /\ messages' = added.messages
                   /\ last' = Called("add_assistant_message", None, TRUE, None)
                   /\ svc' = [op |-> "start_conversation", ok |-> TRUE, ret |-> NewConversationId]
           /\ UNCHANGED <<clock, settings, logged>>

\* process_user_message when add_user_message raised: nothing is appended
\* and the ConversationServiceError is raised
RejectTurn(user_message, first) ==
    /\ messages' = messages
    /\ last' = Called("add_user_message", None, FALSE, first.error)
    /\ svc' = [op |-> "process_user_message", arg |-> user_message, ok |-> FALSE,
               ret |-> "Failed to process user message", cause |-> first.error]

\* the rest of process_user_message when a failed reply generation still
\* appends an assistant message
CompleteTurn_AppendOnFailure(user_message, first, classifier, intent_analysis, available_products, reply) ==
    LET conversation_stage == DetermineConversationStage(intent_analysis)
        tags == [stage |-> conversation_stage,
                 intent |-> intent_analysis.intent,
                 products_shown |-> Len(available_products)]
        second == TryAdd(status, first.messages, "assistant",
                         IF reply.ok THEN reply.text ELSE Keyword.Sure, tags)
        turn == [op |-> "process_user_message", arg |-> user_message,
                 classifier |-> classifier, intent_analysis |-> intent_analysis,
                 stage |-> conversation_stage, products |-> available_products,
                 reply |-> reply]
    IN  IF ~reply.ok
        THEN /\ messages' = second.messages
             /\ last' = Called("add_user_message", None, TRUE, None)
             /\ svc' = turn @@ [ok |-> FALSE, ret |-> "LLM service error", cause |-> reply.error]
        ELSE IF ~second.ok
        THEN /\ messages' = first.messages
             /\ last' = Called("add_assistant_message", None, FALSE, second.error)
             /\ svc' = turn @@ [ok |-> FALSE, ret |-> "Failed to process user message",
                                cause |-> second.error]
        ELSE /\ messages' = second.messages
             /\ last' = Called("add_assistant_message", None, TRUE, None)
             /\ svc' = turn @@ [ok |-> TRUE, ret |-> reply.text]

\* the rest of process_user_message that tags the reply with the number of
\* products of the catalog
CompleteTurn_CountCatalog(user_message, first, classifier, intent_analysis, available_products, reply) ==
    LET conversation_stage == DetermineConversationStage(intent_analysis)
        tags == [stage |-> conversation_stage,
                 intent |-> intent_analysis.intent,
                 products_shown |-> Len(catalog)]
        second == TryAdd(status, first.messages, "assistant",
                         IF reply.ok THEN reply.text ELSE <<>>, tags)
        turn == [op |-> "process_user_message", arg |-> user_message,
                 classifier |-> classifier, intent_analysis |-> intent_analysis,
                 stage |-> conversation_stage, products |-> available_products,
                 reply |-> reply]
    IN  IF ~reply.ok
        THEN /\ messages' = first.messages
             /\ last' = Called("add_user_message", None, TRUE, None)
             /\ svc' = turn @@ [ok |-> FALSE, ret |-> "LLM service error", cause |-> reply.error]
        ELSE IF ~second.ok
        THEN /\ messages' = first.messages
             /\ last' = Called("add_assistant_message", None, FALSE, second.error)
             /\ svc' = turn @@ [ok |-> FALSE, ret |-> "Failed to process user message",
                                cause |-> second.error]
        ELSE /\ messages' = second.messages
             /\ last' = Called("add_assistant_message", None, TRUE, None)
             /\ svc' = turn @@ [ok |-> TRUE, ret |-> reply.text]

\* process_user_message after add_user_message succeeded: the stage, the
\* reply appended with its tags, the reply returned or the
\* ConversationServiceError raised.  first is what add_user_message did,
\* classifier what the classifier call gave, reply what generate_response gave.
CompleteTurn(user_message, first, classifier, intent_analysis, available_products, reply) ==
    LET conversation_stage == DetermineConversationStage(intent_analysis)
        tags == [stage |-> conversation_stage,
                 intent |-> intent_analysis.intent,
                 products_shown |-> Len(available_products)]
        second == TryAdd(status, first.messages, "assistant",
                         IF reply.ok THEN reply.text ELSE <<>>, tags)
        turn == [op |-> "process_user_message", arg |-> user_message,
                 classifier |-> classifier, intent_analysis |-> intent_analysis,
                 stage |-> conversation_stage, products |-> available_products,
                 reply |-> reply]
    IN  IF ~reply.ok
        THEN /\ messages' = first.messages
             /\ last' = Called("add_user_message", None, TRUE, None)
             /\ svc' = turn @@ [ok |-> FALSE, ret |-> "LLM service error", cause |-> reply.error]
        ELSE IF ~second.ok
        THEN /\ messages' = first.messages
             /\ last' = Called("add_assistant_message", None, FALSE, second.error)
             /\ svc' = turn @@ [ok |-> FALSE, ret |-> "Failed to process user message",
                                cause |-> second.error]
        ELSE /\ messages' = second.messages
             /\ last' = Called("add_assistant_message", None, TRUE, None)
             /\ svc' = turn @@ [ok |-> TRUE, ret |-> reply.text]

\* ConversationService.process_user_message(conversation, user, user_message)
\* for a message and a user of the sets given, where the API does one of the
\* runs given for the classifier and one for the reply
ProcessTurn(user_messages, users, classifier_runs, reply_runs) ==
    \E user_message \in user_messages :
    \E first \in {TryAdd(status, messages, "user", user_message, EmptyDict)} :
       /\ IF ~first.ok THEN RejectTurn(user_message, first)
          ELSE \E classified \in classifier_runs :
               \E classifier \in {CallOpenaiApiWithRetry(classified)},
                  intent_analysis \in {AnalyzeUserIntent(classified)} :
               \E u \in users :
               \E available_products \in
                     {GetRelevantProducts(catalog, u, intent_analysis,
                                          settings.product_recommendation_limit)} :
               \E replied \in reply_runs :
               \E reply \in {GenerateResponse(replied)} :
                  CompleteTurn(user_message, first, classifier, intent_analysis,
                               available_products, reply)
       /\ Len(messages') <= MaxMsgs
       /\ UNCHANGED <<status, started_at, ended_at, metadata, clock,
                      conversation_id, active_conversations, settings, logged>>

\* ConversationService.process_user_message(conversation, user, user_message)
ProcessUserMessage ==
    ProcessTurn({<<" ">>, <<"h", "i">>}, {Ana, Bo},
                ApiRuns(TurnTexts, {0, MaxRetries}, {"rate_limit"}),
                ApiRuns(ReplyContents, {0, MaxRetries}, {"timeout"}))

\* del self._active_conversations[conversation_id] that keeps the entry
Evict_Keep(registry, id) == registry

\* if conversation_id in self._active_conversations: del self._active_conversations[conversation_id]
Evict(registry, id) == registry \ {id}

\* end_conversation that hands the conversation to the log sink before it
\* looks at its status
EndIn_LogAlways(op, ended, newStatus, bookkeeping) ==
    IF ~IsActive(status)
    THEN /\ last' = Called(ended, None, FALSE, "Conversation is already inactive")
         /\ svc' = [op |-> op, ok |-> FALSE,
                    ret |-> IF bookkeeping THEN "Failed to end conversation"
                            ELSE "Failed to abandon conversation",
                    cause |-> "Conversation is already inactive"]
         /\ UNCHANGED <<status, messages, started_at, ended_at, metadata, clock,
                        conversation_id, active_conversations, settings>>
         /\ logged' = IF settings.enable_logging
                      THEN Append(logged, [conversation_id |-> conversation_id,
                                           status |-> status, written |-> TRUE])
                      ELSE logged
    ELSE /\ status' = newStatus
         /\ ended_at' = clock
         /\ IF ~settings.enable_logging
            THEN /\ active_conversations' = Evict(active_conversations, conversation_id)
                 /\ last' = Called(ended, None, TRUE, None)
                 /\ svc' = [op |-> op, ok |-> TRUE, ret |-> None]
                 /\ UNCHANGED <<metadata, logged>>
            ELSE \E written \in BOOLEAN :
                 /\ logged' = Append(logged, [conversation_id |-> conversation_id,
                                              status |-> newStatus, written |-> written])
                 /\ IF ~written
                    THEN /\ last' = Called(ended, None, TRUE, None)
                         /\ svc' = [op |-> op, ok |-> FALSE,
                                    ret |-> IF bookkeeping THEN "Failed to log conversation"
                                            ELSE "Failed to abandon conversation",
                                    cause |-> "Failed to log conversation as text"]
                         /\ UNCHANGED <<metadata, active_conversations>>
                    ELSE /\ active_conversations' = Evict(active_conversations, conversation_id)
                         /\ svc' = [op |-> op, ok |-> TRUE, ret |-> None]
                         /\ IF bookkeeping
                            THEN /\ metadata' = DictSet(metadata, "log_path", "f1")
                                 /\ last' = Called("set_metadata_value", <<"log_path", "f1">>, TRUE, None)
                            ELSE /\ last' = Called(ended, None, TRUE, None)
                                 /\ UNCHANGED metadata
         /\ UNCHANGED <<messages, started_at, clock, conversation_id, settings>>

\* end_conversation and abandon_conversation of the service: the conversation
\* ends itself; with logging enabled the log sink is called, which writes the
\* file or raises; end_conversation then records the path in the metadata;
\* last, the conversation leaves the registry
EndIn(op, ended, newStatus, bookkeeping) ==
    IF ~IsActive(status)
    THEN /\ last' = Called(ended, None, FALSE, "Conversation is already inactive")
         /\ svc' = [op |-> op, ok |-> FALSE,
                    ret |-> IF bookkeeping THEN "Failed to end conversation"
                            ELSE "Failed to abandon conversation",
                    cause |-> "Conversation is already inactive"]
         /\ UNCHANGED <<status, messages, started_at, ended_at, metadata, clock,
                        conversation_id, active_conversations, settings, logged>>
    ELSE /\ status' = newStatus
         /\ ended_at' = clock
         /\ IF ~settings.enable_logging
            THEN /\ active_conversations' = Evict(active_conversations, conversation_id)
                 /\ last' = Called(ended, None, TRUE, None)
                 /\ svc' = [op |-> op, ok |-> TRUE, ret |-> None]
                 /\ UNCHANGED <<metadata, logged>>
            ELSE \E written \in BOOLEAN :
                 /\ logged' = Append(logged, [conversation_id |-> conversation_id,
                                              status |-> newStatus, written |-> written])
                 /\ IF ~written
                    THEN /\ last' = Called(ended, None, TRUE, None)
                         /\ svc' = [op |-> op, ok |-> FALSE,
                                    ret |-> IF bookkeeping THEN "Failed to log conversation"
                                            ELSE "Failed to abandon conversation",
                                    cause |-> "Failed to log conversation as text"]
                         /\ UNCHANGED <<metadata, active_conversations>>
                    ELSE /\ active_conversations' = Evict(active_conversations, conversation_id)
                         /\ svc' = [op |-> op, ok |-> TRUE, ret |-> None]
                         /\ IF bookkeeping
                            THEN /\ metadata' = DictSet(metadata, "log_path", "f1")
                                 /\ last' = Called("set_metadata_value", <<"log_path", "f1">>, TRUE, None)
                            ELSE /\ last' = Called(ended, None, TRUE, None)
                                 /\ UNCHANGED metadata
         /\ UNCHANGED <<messages, started_at, clock, conversation_id, settings>>

\* ConversationService.end_conversation(conversation)
EndConversation == EndIn("end_conversation", "complete_conversation", "completed", TRUE)

\* ConversationService.abandon_conversation(conversation)
AbandonServiceConversation == EndIn("abandon_conversation", "abandon_conversation", "abandoned", FALSE)

\* ConversationService.get_conversation(conversation_id): the id found, or None
GetConversation(id) == IF id \in active_conversations THEN id ELSE None

InitSvc ==
    /\ clock = 0
    /\ CreateNew(clock)
    /\ conversation_id = None
    /\ active_conversations = {}
    /\ \E enabled, logging \in BOOLEAN :
          settings = [greeting_enabled |-> enabled, product_recommendation_limit |-> MaxLimit,
                      enable_logging |-> logging]
    /\ svc = [op |-> "none"]
    /\ logged = <<>>
    /\ \E file \in {<<ItemA, ItemD, ItemC>>} :
          /\ \A i \in 1..Len(file) : DataOk(file[i])
          /\ catalog = LoadProducts(file)
    /\ user = None
    /\ limit = 0
    /\ scored = <<>>
    /\ rec = [op |-> "load", ret |-> <<>>]

NextSvc ==
    \/ (StartConversation /\ UNCHANGED recVars)
    \/ (ProcessUserMessage /\ UNCHANGED recVars)
    \/ (CompleteConversation /\ UNCHANGED <<recVars, svcVars>>)

SpecSvc == InitSvc /\ [][NextSvc]_vars

\* The operations of the service on one conversation while time passes, with
\* turns of one user message and one classifier answer
NextEnd ==
    \/ (StartConversation /\ UNCHANGED recVars)
    \/ (ProcessTurn({<<"h", "i">>}, {Ana},
                    ApiRuns({<<"s", "o", "r", "r", "y">>}, {0}, {"rate_limit"}),
                    ApiRuns(ReplyContents, {0, MaxRetries}, {"timeout"})) /\ UNCHANGED recVars)
    \/ (EndConversation /\ UNCHANGED recVars)
    \/ (AbandonServiceConversation /\ UNCHANGED recVars)
    \/ (Tick /\ UNCHANGED <<recVars, svcVars>>)

SpecEnd == InitSvc /\ [][NextEnd]_vars

----------------------------------------------------------------------------
(* Similar products and category retrieval: claims *)

\* the price band bonus of an absolute price difference d
BandOf(d) ==
    CASE d >= 0 /\ d <= 49 -> 8
      [] d >= 50 /\ d <= 99 -> 5
      [] d >= 100 /\ d <= 199 -> 2
      [] d >= 200 -> 0

\* the tags of a that are tags of b, each counted once
CommonTags(a, b) ==
    {t \in {a.tags[k] : k \in 1..Len(a.tags)} : \E k \in 1..Len(b.tags) : b.tags[k] = t}

\* C11: the similarity score is 10 if same subcategory + 5 if same brand + the
\* price band bonus of the absolute price difference d (d < 50: 8, else
\* d < 100: 5, else d < 200: 2, else 0; so 50 gives 5, 100 gives 2, 200 gives
\* 0) + 3 if same price tier + 2 per tag in both tag sets.
C11_SimilarityFormula ==
    rec.op = "_calculate_similarity_score" =>
       LET a == catalog[rec.arg[1]]
           b == catalog[rec.arg[2]]
           d == IF a.price >= b.price THEN a.price - b.price ELSE b.price - a.price
       IN  /\ rec.ret = (IF CaseEq(a.subcategory, b.subcategory) THEN 10 ELSE 0)
                        + (IF CaseEq(a.brand, b.brand) THEN 5 ELSE 0)
                        + BandOf(d)
                        + (IF a.price_tier = b.price_tier THEN 3 ELSE 0)
                        + 2 * Cardinality(CommonTags(a, b))
           /\ d = 50 => BandOf(d) = 5
           /\ d = 100 => BandOf(d) = 2
           /\ d = 200 => BandOf(d) = 0

\* a price difference of exactly 50 with every other bonus and two common tags
C11_Witness ==
    /\ rec.op = "_calculate_similarity_score"
    /\ rec.arg = <<1, 2>>
    /\ catalog[2].price - catalog[1].price = 50
    /\ Cardinality(CommonTags(catalog[1], catalog[2])) = 2
    /\ rec.ret = 10 + 5 + 5 + 3 + 4

Similar == rec.op = "get_similar_products"

\* the candidates of get_similar_products for the product asked about
SimilarCandidates ==
    {i \in 1..Len(catalog) :
        /\ catalog[i].stock_status \in {"in_stock", "low_stock"}
        /\ CaseEq(catalog[i].category, rec.arg.category)
        /\ catalog[i].product_id # rec.arg.product_id}

SimilarityAt(i) == CalculateSimilarityScore(rec.arg, catalog[i])

\* i is ranked before j: greater similarity, or equal and earlier in the catalog
SimilarBefore(i, j) ==
    \/ SimilarityAt(i) > SimilarityAt(j)
    \/ SimilarityAt(i) = SimilarityAt(j) /\ i < j

\* C12: get_similar_products(product, limit) returns only available products
\* of the product's category (ignoring case), never the product itself, by
\* non-increasing similarity with equal scores in catalog order, at most limit
\* of them: the top limit of that ordering.
C12_SimilarProducts ==
    Similar =>
       LET r == rec.ret
       IN  /\ \A k \in 1..Len(r) : r[k] \in SimilarCandidates
           /\ \A k \in 1..(Len(r) - 1) : SimilarBefore(r[k], r[k + 1])
           /\ Len(r) = Min(limit, Cardinality(SimilarCandidates))
           /\ \A q \in SimilarCandidates \ Range(r) :
                 \A k \in 1..Len(r) : SimilarBefore(r[k], q)

\* asked about A, which is in the catalog after its twin B and an
\* out-of-stock PC: the twin is returned and A itself is not
C12_Witness ==
    /\ Similar
    /\ limit = 2
    /\ Len(catalog) = 3
    /\ catalog[3].product_id = rec.arg.product_id
    /\ catalog[2].stock_status = "out_of_stock"
    /\ rec.ret = <<1>>
    /\ SimilarityAt(1) = SimilarityAt(3)

\* the available products of one category, in catalog order
RECURSIVE AvailableOfCategory(_, _)
AvailableOfCategory(i, category) ==
    IF i > Len(catalog) THEN <<>>
    ELSE (IF /\ CaseEq(catalog[i].category, category)
             /\ catalog[i].stock_status \in {"in_stock", "low_stock"}
          THEN <<i>> ELSE <<>>)
         \o AvailableOfCategory(i + 1, category)

\* the concatenation over the requested categories, in the order requested
RECURSIVE Concatenation(_)
Concatenation(categories) ==
    IF categories = <<>> THEN <<>>
    ELSE AvailableOfCategory(1, Head(categories)) \o Concatenation(Tail(categories))

\* C13: get_products_by_categories(categories, limit) returns the
\* concatenation, in the order the categories are requested, of each
\* category's available products in catalog order, without de-duplication;
\* when a limit is given, the first limit of that concatenation (at most
\* limit products).
C13_CategoriesConcatenation ==
    rec.op = "get_products_by_categories" =>
       LET whole == Concatenation(rec.arg)
       IN  IF limit = None THEN rec.ret = whole
           ELSE /\ Len(rec.ret) <= limit
                /\ rec.ret = SubSeq(whole, 1, Min(limit, Len(whole)))

----------------------------------------------------------------------------
(* Intent analysis and stage: claims *)

IntentNames ==
    {Keyword.Browsing, Keyword.AskingQuestion, Keyword.RequestingRecommendation, Keyword.ComparingProducts,
     Keyword.ReadyToBuy, Keyword.Objection, Keyword.Unknown}

Stages == {"discovery", "recommendation", "comparison", "closing", "objection_handling"}

\* C14: the stage is always one of the five tags; browsing, asking_question
\* and unknown give discovery, requesting_recommendation recommendation,
\* comparing_products comparison, ready_to_buy closing, objection
\* objection_handling, and every other or missing intent gives discovery.
C14_StageMappingTotal ==
    svc.op = "_determine_conversation_stage" =>
       LET given == "intent" \in DOMAIN svc.arg
           stage == svc.ret
       IN  /\ stage \in Stages
           /\ ~given => stage = "discovery"
           /\ given =>
                 LET intent == svc.arg.intent
                 IN  /\ intent \in {Keyword.Browsing, Keyword.AskingQuestion, Keyword.Unknown} => stage = "discovery"
                     /\ intent = Keyword.RequestingRecommendation => stage = "recommendation"
                     /\ intent = Keyword.ComparingProducts => stage = "comparison"
                     /\ intent = Keyword.ReadyToBuy => stage = "closing"
                     /\ intent = Keyword.Objection => stage = "objection_handling"
                     /\ intent \notin IntentNames => stage = "discovery"

\* an intent outside the seven names, mapped to discovery
C14_Witness ==
    /\ svc.op = "_determine_conversation_stage"
    /\ "intent" \in DOMAIN svc.arg
    /\ svc.arg.intent \notin IntentNames
    /\ svc.arg.intent # <<>>
    /\ svc.ret = "discovery"

\* C15 as stated: for every classifier answer the intent analyze_user_intent
\* gives, and so the intent in the metadata of every assistant reply
\* process_user_message appends, is one of the seven intent names.
C15_IntentInVocabulary ==
    /\ (svc.op = "process_user_message" /\ "intent_analysis" \in DOMAIN svc) =>
          svc.intent_analysis.intent \in IntentNames
    /\ \A i \in 1..Len(messages) :
          (messages[i].role = "assistant" /\ "intent" \in DOMAIN messages[i].metadata) =>
             messages[i].metadata.intent \in IntentNames

\* C16 as stated: when the intent analysis carries a budget hint (any number,
\* 0 included), every product _get_relevant_products selects has
\* price <= the hint, with categories named or not.
C16_WithinBudgetHint ==
    (rec.op = "_get_relevant_products" /\ rec.arg.budget # None) =>
       \A k \in 1..Len(rec.ret) : catalog[rec.ret[k]].price <= rec.arg.budget

----------------------------------------------------------------------------
(* The conversation service: claims *)

\* the step is a call of process_user_message
TurnStep ==
    /\ svc'.op = "process_user_message"
    /\ last'.op \in {"add_user_message", "add_assistant_message"}

\* the state is the one a call of process_user_message left
AfterTurn ==
    /\ svc.op = "process_user_message"
    /\ last.op \in {"add_user_message", "add_assistant_message"}

UserMessageOf(content) == [role |-> "user", content |-> content, metadata |-> <<>>]

\* C17: when reply generation fails in process_user_message on an active
\* conversation, a service error is raised, the history has grown by exactly
\* the user message, and the conversation stays active and registered.
C17_ReplyFailureKeepsState ==
    [][(TurnStep /\ status = "active" /\ "reply" \in DOMAIN svc' /\ ~svc'.reply.ok) =>
          /\ ~svc'.ok
          /\ svc'.ret = "LLM service error"
          /\ messages' = Append(messages, UserMessageOf(svc'.arg))
          /\ status' = "active"
          /\ active_conversations' = active_conversations
          /\ conversation_id' = conversation_id]_vars

\* a started, greeted conversation whose first turn lost its reply: the
\* greeting and the user message, still active, still registered
C17_Witness ==
    /\ AfterTurn
    /\ ~svc.ok
    /\ svc.ret = "LLM service error"
    /\ svc.reply.calls = MaxRetries
    /\ status = "active"
    /\ conversation_id \in active_conversations
    /\ Len(messages) = 2
    /\ messages[1].role = "assistant"
    /\ messages[2] = UserMessageOf(svc.arg)

\* no line of the text has the key intent before its first colon
LacksIntentLine(text) ==
    LET lines == Split(Strip(text), "\n")
    IN  \A i \in 1..Len(lines) :
           \/ FirstIndex(lines[i], ":") = 0
           \/ ~CaseEq(Strip(SubSeq(lines[i], 1, FirstIndex(lines[i], ":") - 1)), Keyword.Intent)

\* the turn reached the classifier and the classifier call raised
ClassifierFailed == AfterTurn /\ "classifier" \in DOMAIN svc /\ ~svc.classifier.ok

\* the turn reached the classifier and its answer has no intent line
ClassifierLacksIntent ==
    AfterTurn /\ "classifier" \in DOMAIN svc /\ svc.classifier.ok
    /\ LacksIntentLine(svc.classifier.text)

C19_SuccessfulTurnFrame ==
    [][(TurnStep /\ status = "active" /\ svc'.ok) =>
          /\ messages' = messages \o
                <<UserMessageOf(svc'.arg),
                  [role |-> "assistant", content |-> svc'.ret,
                   metadata |-> [stage |-> svc'.stage,
                                 intent |-> svc'.intent_analysis.intent,
                                 products_shown |-> Len(svc'.products)]]>>
          /\ svc'.stage \in Stages
          /\ \A k \in 1..Len(svc'.products) : svc'.products[k] \in 1..Len(catalog)
          /\ status' = status
          /\ active_conversations' = active_conversations]_vars

\* a successful turn after the greeting that selected one product of the
\* category named, within the budget hint
C19_Witness ==
    /\ AfterTurn
    /\ svc.ok
    /\ Len(messages) = 3
    /\ messages[1].role = "assistant"
    /\ messages[2].role = "user"
    /\ messages[3].content = svc.ret
    /\ messages[3].metadata.products_shown = 1
    /\ svc.intent_analysis.budget = 200
    /\ catalog[svc.products[1]].price <= 200
    /\ messages[3].metadata.stage = "discovery"

\* the state is the one a call of start_conversation left
AfterStart ==
    /\ svc.op = "start_conversation"
    /\ last.op \in {"create_new", "add_assistant_message"}

\* C20: a successful start_conversation returns an active conversation
\* registered under its id, whose history is exactly one assistant greeting
\* when greeting is enabled and empty when it is disabled.
C20_StartRegistersAndGreets ==
    (AfterStart /\ svc.ok) =>
       /\ status = "active"
       /\ svc.ret = conversation_id
       /\ GetConversation(svc.ret) = conversation_id
       /\ IF settings.greeting_enabled
          THEN /\ Len(messages) = 1
               /\ messages[1].role = "assistant"
               /\ messages[1].content = Keyword.Sure
          ELSE messages = <<>>

\* started with greeting enabled: one assistant message, no user message
C20_Witness ==
    /\ AfterStart
    /\ svc.ok
    /\ settings.greeting_enabled
    /\ Len(messages) = 1
    /\ messages[1].role = "assistant"
    /\ conversation_id \in active_conversations

\* the attempts of a call of the retry wrapper that fail
AttemptFails(answer) == answer.kind # "content"

\* the first attempt within max_retries that succeeds, 0 when there is none
FirstSuccess(answers, max_retries) ==
    IF \E k \in 1..max_retries : ~AttemptFails(answers[k])
    THEN CHOOSE k \in 1..max_retries :
            /\ ~AttemptFails(answers[k])
            /\ \A j \in 1..(k - 1) : AttemptFails(answers[j])
    ELSE 0

\* the failed attempts the wrapper sleeps after: those before the first
\* success, or all but the last permitted attempt
SleptAfter(answers, max_retries) ==
    IF FirstSuccess(answers, max_retries) # 0
    THEN FirstSuccess(answers, max_retries) - 1
    ELSE IF max_retries >= 1 THEN max_retries - 1 ELSE 0

\* calls and sleeps of the wrapper, with the sleeps in half seconds, when
\* extra(answer) tells the failures that get the extra 0.5 * a seconds
RetryBackoff(extra(_)) ==
    svc.op = "_call_openai_api_with_retry" =>
       LET answers == svc.arg
           n == svc.max_retries
           k == FirstSuccess(answers, n)
       IN  /\ svc.ret.calls <= n
           /\ k # 0 => svc.ret.ok /\ svc.ret.calls = k
           /\ k = 0 => ~svc.ret.ok
           /\ Len(svc.ret.sleeps) = SleptAfter(answers, n)
           /\ \A a \in 1..Len(svc.ret.sleeps) :
                 svc.ret.sleeps[a] = 2 * (2 ^ a) + (IF extra(answers[a]) THEN a ELSE 0)

\* the exception is a RateLimitError
IsRateLimitError(answer) == answer.kind = "rate_limit"

\* the text of the error mentions a rate limit, in any case: a RateLimitError,
\* or another exception whose message does
MentionsRateLimit(answer) ==
    \/ answer.kind = "rate_limit"
    \/ /\ "message" \in DOMAIN answer
       /\ CaseSubstring(<<"r", "a", "t", "e", " ", "l", "i", "m", "i", "t">>, answer.message)

\* C23 as stated: the retry wrapper makes at most max_retries API calls; if
\* attempt k is the first to succeed it returns after exactly k calls, having
\* slept 2^a seconds after each failed attempt a < k, plus 0.5 * a seconds only
\* for failures that are rate-limit errors; no sleep after the last attempt.
C23_AsStated == RetryBackoff(IsRateLimitError)

\* C23: the same, where the extra 0.5 * a seconds are slept after every failure
\* whose error text mentions a rate limit, whatever the exception was.
C23_RetryBackoff == RetryBackoff(MentionsRateLimit)

\* two transient failures, then success, with max_retries = 3: three calls and
\* sleeps of 2 and 4 seconds
C23_Witness ==
    /\ svc.op = "_call_openai_api_with_retry"
    /\ svc.max_retries = 3
    /\ svc.arg[1].kind = "timeout" /\ svc.arg[2].kind = "unexpected"
    /\ svc.arg[3].kind = "content"
    /\ svc.ret.ok /\ svc.ret.calls = 3
    /\ svc.ret.sleeps = <<4, 8>>

\* C24: when every one of the max_retries >= 1 attempts fails, the wrapper
\* raises a service error whose text is the error of the last attempt, for
\* every mix of rate-limit and other failures.
C24_LastErrorRaised ==
    (/\ svc.op = "_call_openai_api_with_retry"
     /\ svc.max_retries >= 1
     /\ \A a \in 1..svc.max_retries : AttemptFails(svc.arg[a])) =>
        /\ ~svc.ret.ok
        /\ svc.ret.calls = svc.max_retries
        /\ svc.ret.error = CallOpenaiApi(svc.arg[svc.max_retries]).error

\* three failures of three kinds: the error raised is the third, not the first
C24_Witness ==
    /\ svc.op = "_call_openai_api_with_retry"
    /\ svc.max_retries = 3
    /\ svc.arg[1].kind = "rate_limit" /\ svc.arg[2].kind = "timeout"
    /\ svc.arg[3].kind = "no_choices"
    /\ ~svc.ret.ok
    /\ svc.ret.error # CallOpenaiApi(svc.arg[1]).error
    /\ svc.ret.error # CallOpenaiApi(svc.arg[2]).error

ServiceEndOps == {"end_conversation", "abandon_conversation"}

\* C21: after end_conversation returns successfully the conversation has status
\* completed, an end timestamp >= its start timestamp, and get_conversation(id)
\* no longer returns it; after abandon_conversation returns successfully the
\* same holds with status abandoned.
C21_EndedAndEvicted ==
    (svc.op \in ServiceEndOps /\ svc.ok) =>
       /\ svc.op = "end_conversation" => status = "completed"
       /\ svc.op = "abandon_conversation" => status = "abandoned"
       /\ ended_at # None /\ ended_at >= started_at
       /\ GetConversation(conversation_id) = None
       /\ conversation_id \notin active_conversations

\* a started conversation with a message, ended later than it started, logged
C21_Witness ==
    /\ svc.op = "end_conversation" /\ svc.ok
    /\ conversation_id = NewConversationId
    /\ Len(messages) >= 1
    /\ ended_at > started_at
    /\ Len(logged) = 1
    /\ status = "completed"

\* C22 as stated: after any sequence of start, process, end and abandon calls,
\* including calls that fail because the log sink raises, every conversation in
\* the registry has status active.
C22_RegistryHoldsActiveOnly ==
    conversation_id \in active_conversations => status = "active"

\* a call of end_conversation or abandon_conversation
EndStep ==
    /\ svc'.op \in ServiceEndOps
    /\ last'.op \in EndOps \cup {"set_metadata_value"}

\* C25: with logging enabled, over any sequence of end_conversation and
\* abandon_conversation calls on one conversation the log sink is invoked at
\* most once for it, exactly once if the first such call is made while it is
\* active, and only after its status has become terminal.
C25_LoggedOnce ==
    [][settings.enable_logging =>
          /\ \A i, j \in 1..Len(logged') :
                i # j => logged'[i].conversation_id # logged'[j].conversation_id
          /\ \A i \in 1..Len(logged') : logged'[i].status \in {"completed", "abandoned"}
          /\ (EndStep /\ status = "active") =>
                /\ Len(logged') = Len(logged) + 1
                /\ logged'[Len(logged')].conversation_id = conversation_id
                /\ logged'[Len(logged')].status = status'
                /\ status' \in {"completed", "abandoned"}
          /\ ~(EndStep /\ status = "active") => logged' = logged]_vars

\* ended, then abandoned: the second call fails and the sink was called once
C25_Witness ==
    /\ settings.enable_logging
    /\ svc.op = "abandon_conversation" /\ ~svc.ok
    /\ status = "completed"
    /\ Len(logged) = 1
    /\ logged[1].status = "completed"
    /\ conversation_id = NewConversationId

\* C26 as stated: once a conversation is completed or abandoned, no operation,
\* set_metadata_value included, changes any of its fields.
C26_NoMutationWhenInactive ==
    [][status # "active" =>
          UNCHANGED <<status, messages, started_at, ended_at, metadata>>]_vars

\* content is empty or made of whitespace only
Blank(content) == \A i \in 1..Len(content) : content[i] \in {" ", "\t", "\n"}

\* C27: the message history is append-only: every step leaves the history as
\* it was or adds messages at its end, and a message with empty or
\* whitespace-only content is rejected without changing the history.
C27_AppendOnly ==
    [][/\ Len(messages') >= Len(messages)
       /\ SubSeq(messages', 1, Len(messages)) = messages
       /\ \A i \in (Len(messages) + 1)..Len(messages') : ~Blank(messages'[i].content)
       /\ (last'.op \in AddOps /\ ~last'.ok) => messages' = messages]_vars

\* a message was rejected for its content after the history had grown
C27_Witness ==
    /\ last.op = "add_user_message" /\ ~last.ok
    /\ last.ret = "Message content cannot be empty"
    /\ Len(messages) >= 2
    /\ status = "active"

\* C29 as stated: if start_conversation fails (the greeting call raises after
\* the retries, with greeting enabled), the set of registered conversation ids
\* is the same as before the call.
C29_FailedStartLeavesRegistry ==
    [][(svc'.op = "start_conversation" /\ ~svc'.ok /\ conversation_id = None
        /\ conversation_id' # None) =>
           active_conversations' = active_conversations]_vars

\* the stock records constructed by the last call
StockBuilt == rec.op = "ProductStockSchema" /\ rec.ret.ok

\* C28: every constructed stock record with quantity 0 is out_of_stock whatever
\* status was supplied, one supplied as in_stock with 0 < quantity <=
\* reorder_level is low_stock, every available record has quantity > 0, and
\* a negative quantity or reorder level makes the construction fail
C28_StockStatusInvariant ==
    rec.op = "ProductStockSchema" =>
       /\ rec.ret.ok <=> (rec.arg.quantity >= 0 /\ rec.arg.reorder_level >= 0)
       /\ rec.ret.ok =>
             /\ rec.ret.quantity = rec.arg.quantity
             /\ rec.ret.reorder_level = rec.arg.reorder_level
             /\ rec.ret.quantity = 0 => rec.ret.status = "out_of_stock"
             /\ (rec.arg.status = "in_stock" /\ 0 < rec.ret.quantity
                   /\ rec.ret.quantity <= rec.ret.reorder_level) => rec.ret.status = "low_stock"
             /\ rec.ret.status \in {"in_stock", "low_stock"} => rec.ret.quantity > 0

\* a record supplied as in_stock at its reorder level, constructed as low_stock
C28_Witness ==
    /\ StockBuilt
    /\ rec.arg.status = "in_stock"
    /\ rec.arg.quantity = 1 /\ rec.arg.reorder_level = 1
    /\ rec.ret.status = "low_stock"

\* the product at catalog position i is priced inside the budget of the user
InBudget(i) ==
    catalog[i].price >= user.budget_range.min /\ catalog[i].price <= user.budget_range.max

\* C30: in the list returned by get_recommendations_for_user every product
\* priced inside the budget (score >= 10) is placed before every product priced
\* outside it (score 0), and a product outside the budget is returned only
\* after all available products inside the budget.
C30_InBudgetFirst ==
    Recommended =>
       LET r == rec.ret
       IN  /\ \A k \in 1..Len(r) :
                 IF InBudget(r[k]) THEN ScoreAt(r[k]) >= 10 ELSE ScoreAt(r[k]) = 0
           /\ \A j, k \in 1..Len(r) : (InBudget(r[k]) /\ ~InBudget(r[j])) => k < j
           /\ \A j \in 1..Len(r) :
                 ~InBudget(r[j]) =>
                    \A q \in AvailablePositions :
                       InBudget(q) => \E k \in 1..(j - 1) : r[k] = q

\* a product outside the budget stands first in the catalog and is returned
\* after the product inside the budget that follows it
C30_Witness ==
    /\ Recommended
    /\ Len(rec.ret) >= 2
    /\ rec.ret[1] = 2 /\ InBudget(2)
    /\ rec.ret[2] = 1 /\ ~InBudget(1)

====
